---- MODULE Spec2Model ----
(***************************************************************************)
(* Verification model of the tortugas-strava-api ingestion core:           *)
(*   - the rate limiter and the remote API client (src/strava),            *)
(*   - the activity store adapter (src/activities/service.py),             *)
(*   - webhook event processing and backfill (src/webhooks, src/sync).     *)
(*                                                                         *)
(* The module holds several specifications over one set of variables; a   *)
(* specification leaves the variables of the other parts at their initial  *)
(* values.                                                                 *)
(*   SpecLimiter : one client with its limiter, calls made one at a time   *)
(*   SpecAdapter : the store adapter called from one session at a time     *)
(*   SpecStore   : webhook tasks and a backfill run interleaved at their    *)
(*                 await points, each with a session of its own            *)
(***************************************************************************)
EXTENDS Integers, Sequences, FiniteSets, TLC

VARIABLES
    priority,        \* AsyncRateLimiter.priority
    current_limits,  \* AsyncRateLimiter.current_limits: <<>> (None) or <<RateLimitInfo>>
    call,            \* the _request call in progress on the client
    callers,         \* the _request calls of concurrent callers of one client
    activities,      \* table "activities": the sequence of its rows
    now,             \* the clock read by datetime.now(timezone.utc)
    hist,            \* the last two calls made on the store adapter
    users,           \* table "users": the athlete ids that have a row
    remote,          \* the remote API's record of each activity
    pending,         \* webhook events the remote has still to deliver
    tasks,           \* the background tasks of webhook_event
    sync,            \* the run of sync_athlete_activities
    budget,          \* remote changes, deliveries and faults so far
    http,            \* the last response of POST /webhooks/strava
    tokens,          \* the access token stored in each athlete's user row
    validation,      \* the last request and response of GET /webhooks/strava
    oauth,           \* the request of GET /auth/callback and its background task
    deauth,          \* the call of deauthorize_user in progress
    scoring          \* the last call made on the scoring engine and its result

varsLimiter == <<priority, current_limits, call, callers>>
varsTable == <<activities, now>>
varsAdapter == <<activities, now, hist>>
varsIngest == <<users, remote, pending, tasks, sync, budget, http, tokens, validation,
               oauth, deauth, scoring>>
varsNotLimiter == <<activities, now, hist, users, remote, pending, tasks, sync, budget,
                    http, tokens, validation, oauth, deauth, scoring>>

vars == <<priority, current_limits, call, callers, activities, now, hist,
          users, remote, pending, tasks, sync, budget, http, tokens, validation,
          oauth, deauth, scoring>>

(***************************************************************************)
(* Optional values: None is the empty sequence, a value x is <<x>>.        *)
(***************************************************************************)
None == <<>>
Some(x) == <<x>>
IsNone(o) == Len(o) = 0
IsSome(o) == Len(o) = 1
Get(o) == o[1]

(***************************************************************************)
(* Durations in seconds are exact rationals num/den, den > 0.  The code    *)
(* computes 900 / remaining in floating point; the quotient is kept exact  *)
(* here.                                                                   *)
(***************************************************************************)
Rat(n, d) == [num |-> n, den |-> d]
RatLeq(a, b) == a.num * b.den <= b.num * a.den
RatEq(a, b) == a.num * b.den = b.num * a.den
\* Python's min(a, b): the first of the smallest arguments
RatMin(a, b) == IF RatLeq(a, b) THEN a ELSE b

(***************************************************************************)
(*                    src/strava/rate_limiter.py                           *)
(***************************************************************************)
Priorities == {"high", "medium", "low"}

\* sleep constants of wait_if_needed
LONG_EXCEEDED_SLEEP == 60
SHORT_EXCEEDED_SLEEP == 30
SHORT_WINDOW_SECONDS == 900
LONG_WINDOW_SECONDS == 86400
MEDIUM_MAX_SLEEP == 2
LOW_MAX_SLEEP == 5

\* A header value is modelled after value.split(","): the sequence of its
\* comma-separated fields.  A field is a decimal integer (ok, val) or text
\* that int() rejects (ok = FALSE).
IntField(n) == [ok |-> TRUE, val |-> n]
BadField == [ok |-> FALSE, val |-> 0]

\* header names as they arrive, and k.lower()
USAGE_NAME == "X-RateLimit-Usage"
LIMIT_NAME == "X-RATELIMIT-LIMIT"
OTHER_NAME == "Content-Type"
usage_key == "x-ratelimit-usage"
limit_key == "x-ratelimit-limit"
Lower(k) ==
    CASE k = "X-RateLimit-Usage" -> "x-ratelimit-usage"
      [] k = "X-RATELIMIT-LIMIT" -> "x-ratelimit-limit"
      [] k = "Content-Type" -> "content-type"
      [] OTHER -> k

\* headers_lower = {k.lower(): v for k, v in headers.items()}
headers_lower(headers) ==
    [k \in {Lower(n) : n \in DOMAIN headers} |->
        headers[CHOOSE n \in DOMAIN headers : Lower(n) = k]]

\* [int(x) for x in value.split(",")]: ValueError on the first bad field
AllInts(fields) == \A i \in 1..Len(fields) : fields[i].ok

RateLimitInfo(su, lu, sl, ll) ==
    [short_usage |-> su, long_usage |-> lu, short_limit |-> sl, long_limit |-> ll]

\* update_limits with the snapshot reset when a quota header is missing
update_limits_reset_on_missing(cur, headers) ==
    LET hl == headers_lower(headers) IN
    IF usage_key \in DOMAIN hl /\ limit_key \in DOMAIN hl
    THEN LET usage == hl[usage_key]
             limit == hl[limit_key]
         IN IF ~AllInts(usage) \/ ~AllInts(limit)
            THEN [limits |-> cur, raised |-> "ValueError"]
            ELSE IF Len(usage) < 2 \/ Len(limit) < 2
            THEN [limits |-> cur, raised |-> "IndexError"]
            ELSE [limits |-> Some(RateLimitInfo(usage[1].val, usage[2].val,
                                                limit[1].val, limit[2].val)),
                  raised |-> "none"]
    ELSE [limits |-> None, raised |-> "none"]

\* update_limits taking the usage of the response and keeping the limits of
\* the snapshot it finds
update_limits_keeps_old_limits(cur, headers) ==
    LET hl == headers_lower(headers) IN
    IF usage_key \in DOMAIN hl /\ limit_key \in DOMAIN hl
    THEN LET usage == hl[usage_key]
             limit == hl[limit_key]
         IN IF ~AllInts(usage) \/ ~AllInts(limit)
            THEN [limits |-> cur, raised |-> "ValueError"]
            ELSE IF Len(usage) < 2 \/ Len(limit) < 2
            THEN [limits |-> cur, raised |-> "IndexError"]
            ELSE [limits |-> Some(RateLimitInfo(
                                usage[1].val, usage[2].val,
                                IF IsSome(cur) THEN Get(cur).short_limit ELSE limit[1].val,
                                IF IsSome(cur) THEN Get(cur).long_limit ELSE limit[2].val)),
                  raised |-> "none"]
    ELSE [limits |-> cur, raised |-> "none"]

\* AsyncRateLimiter.update_limits: the new value of current_limits and the
\* exception raised ("none" when it returns normally)
update_limits(cur, headers) ==
    LET hl == headers_lower(headers) IN
    IF usage_key \in DOMAIN hl /\ limit_key \in DOMAIN hl
    THEN LET usage == hl[usage_key]
             limit == hl[limit_key]
         IN IF ~AllInts(usage) \/ ~AllInts(limit)
            THEN [limits |-> cur, raised |-> "ValueError"]
            ELSE IF Len(usage) < 2 \/ Len(limit) < 2
            THEN [limits |-> cur, raised |-> "IndexError"]
            ELSE [limits |-> Some(RateLimitInfo(usage[1].val, usage[2].val,
                                                limit[1].val, limit[2].val)),
                  raised |-> "none"]
    ELSE [limits |-> cur, raised |-> "none"]

\* pacing of one invocation for a snapshot with neither window exhausted,
\* with the caps cm (medium) and cl (low)
Pacing(limits, prio, cm, cl) ==
    IF prio = "medium"
    THEN <<RatMin(Rat(SHORT_WINDOW_SECONDS, limits.short_limit - limits.short_usage),
                  Rat(cm, 1))>>
    ELSE IF prio = "low"
    THEN <<RatMin(Rat(LONG_WINDOW_SECONDS, limits.long_limit - limits.long_usage),
                  Rat(cl, 1))>>
    ELSE <<>>

\* wait_if_needed with the short window compared by > instead of >=
wait_if_needed_short_strict(cur, prio) ==
    IF IsNone(cur) THEN <<>>
    ELSE LET limits == Get(cur) IN
         IF limits.long_usage >= limits.long_limit
         THEN <<Rat(LONG_EXCEEDED_SLEEP, 1)>>
         ELSE IF limits.short_usage > limits.short_limit
         THEN <<Rat(SHORT_EXCEEDED_SLEEP, 1)>>
         ELSE IF limits.short_usage = limits.short_limit THEN <<>>
         ELSE Pacing(limits, prio, MEDIUM_MAX_SLEEP, LOW_MAX_SLEEP)

\* wait_if_needed without the return after the sleep of an exhausted window
wait_if_needed_no_return(cur, prio) ==
    IF IsNone(cur) THEN <<>>
    ELSE LET limits == Get(cur)
             short_remaining == limits.short_limit - limits.short_usage
             long_remaining == limits.long_limit - limits.long_usage
         IN (IF long_remaining <= 0 THEN <<Rat(LONG_EXCEEDED_SLEEP, 1)>> ELSE <<>>)
            \o (IF short_remaining <= 0 THEN <<Rat(SHORT_EXCEEDED_SLEEP, 1)>> ELSE <<>>)
            \o (IF prio = "medium" /\ short_remaining > 0
                THEN <<RatMin(Rat(SHORT_WINDOW_SECONDS, short_remaining),
                              Rat(MEDIUM_MAX_SLEEP, 1))>>
                ELSE IF prio = "low" /\ long_remaining > 0
                THEN <<RatMin(Rat(LONG_WINDOW_SECONDS, long_remaining),
                              Rat(LOW_MAX_SLEEP, 1))>>
                ELSE <<>>)

\* wait_if_needed with the two window checks in the other order
wait_if_needed_short_first(cur, prio) ==
    IF IsNone(cur) THEN <<>>
    ELSE LET limits == Get(cur) IN
         IF limits.short_usage >= limits.short_limit
         THEN <<Rat(SHORT_EXCEEDED_SLEEP, 1)>>
         ELSE IF limits.long_usage >= limits.long_limit
         THEN <<Rat(LONG_EXCEEDED_SLEEP, 1)>>
         ELSE Pacing(limits, prio, MEDIUM_MAX_SLEEP, LOW_MAX_SLEEP)

\* wait_if_needed with the caps of medium and low exchanged
wait_if_needed_caps_swapped(cur, prio) ==
    IF IsNone(cur) THEN <<>>
    ELSE LET limits == Get(cur) IN
         IF limits.long_usage >= limits.long_limit
         THEN <<Rat(LONG_EXCEEDED_SLEEP, 1)>>
         ELSE IF limits.short_usage >= limits.short_limit
         THEN <<Rat(SHORT_EXCEEDED_SLEEP, 1)>>
         ELSE Pacing(limits, prio, LOW_MAX_SLEEP, MEDIUM_MAX_SLEEP)

\* AsyncRateLimiter.wait_if_needed: the sequence of asyncio.sleep durations
\* of one invocation
wait_if_needed(cur, prio) ==
    IF IsNone(cur) THEN <<>>
    ELSE LET limits == Get(cur) IN
         IF limits.long_usage >= limits.long_limit
         THEN <<Rat(LONG_EXCEEDED_SLEEP, 1)>>
         ELSE IF limits.short_usage >= limits.short_limit
         THEN <<Rat(SHORT_EXCEEDED_SLEEP, 1)>>
         ELSE IF prio = "high" THEN <<>>
         ELSE IF prio = "medium"
         THEN LET remaining == limits.short_limit - limits.short_usage IN
              IF remaining > 0
              THEN <<RatMin(Rat(SHORT_WINDOW_SECONDS, remaining), Rat(MEDIUM_MAX_SLEEP, 1))>>
              ELSE <<>>
         ELSE IF prio = "low"
         THEN LET remaining == limits.long_limit - limits.long_usage IN
              IF remaining > 0
              THEN <<RatMin(Rat(LONG_WINDOW_SECONDS, remaining), Rat(LOW_MAX_SLEEP, 1))>>
              ELSE <<>>
         ELSE <<>>

(***************************************************************************)
(*                       src/strava/client.py                              *)
(***************************************************************************)
StatusCodes == {200, 201, 204, 302, 401, 404, 418, 429, 503}

\* httpx.Response.is_success
is_success(status) == 200 <= status /\ status <= 299

\* _handle_errors with 429 left to the generic 4xx branch
handle_errors_no_rate_limit_branch(status) ==
    IF is_success(status) THEN "none"
    ELSE IF status = 404 THEN "ObjectNotFound"
    ELSE IF status = 401 THEN "AccessUnauthorized"
    ELSE "StravaException"

\* AsyncStravaClient._handle_errors: the exception raised, "none" on success
handle_errors(status) ==
    IF is_success(status) THEN "none"
    ELSE IF status = 404 THEN "ObjectNotFound"
    ELSE IF status = 401 THEN "AccessUnauthorized"
    ELSE IF status = 429 THEN "RateLimitExceeded"
    ELSE "StravaException"

\* the quota header values the remote may send
ShortUsages == {0, 100, 600}
LongUsages == {0, 20000}
ShortLimits == {100, 600}
LongLimits == {1000, 20000}
UsageValues ==
    {<<IntField(su), IntField(lu)>> : su \in ShortUsages, lu \in LongUsages}
    \cup {<<BadField, IntField(0)>>, <<IntField(0)>>}
LimitValues ==
    {<<IntField(sl), IntField(ll)>> : sl \in ShortLimits, ll \in LongLimits}
    \cup {<<IntField(600)>>}

HeaderSets ==
    {[n \in {OTHER_NAME} |-> <<BadField>>]}
    \cup {[n \in {OTHER_NAME, USAGE_NAME} |->
             IF n = USAGE_NAME THEN u ELSE <<BadField>>] : u \in UsageValues}
    \cup {[n \in {OTHER_NAME, LIMIT_NAME} |->
             IF n = LIMIT_NAME THEN l ELSE <<BadField>>] : l \in LimitValues}
    \cup {[n \in {OTHER_NAME, USAGE_NAME, LIMIT_NAME} |->
             IF n = USAGE_NAME THEN u ELSE IF n = LIMIT_NAME THEN l ELSE <<BadField>>] :
             u \in UsageValues, l \in LimitValues}

\* the body as response.json() sees it: a JSON document, or text it rejects
\* (an empty body included)
Bodies == {"json", "not_json"}

Responses == [status_code : StatusCodes, headers : HeaderSets, body : Bodies]

NoResponse == [status_code |-> 0, headers |-> [n \in {} |-> <<>>], body |-> "none"]

\* _request, lines 111-114: {} for 204, else response.json()
response_result(response) ==
    IF response.status_code = 204 THEN "empty"
    ELSE IF response.body = "json" THEN "json"
    ELSE "JSONDecodeError"

IdleCall ==
    [pc |-> "idle", response |-> NoResponse, before |-> None,
     steps |-> <<>>, sleeps |-> <<>>, outcome |-> "none"]

\* the coroutines that call _request on one client, and so on one limiter
MaxCallers == 2
CallerIds == 1..MaxCallers
IdleCallers == [c \in CallerIds |-> IdleCall]

\* _request, line 97: response = await client.request(...)
RequestExecute ==
    /\ call.pc = "idle"
    /\ \E r \in Responses :
         call' = [IdleCall EXCEPT !.pc = "responded", !.response = r,
                                  !.steps = <<"execute">>]
    /\ UNCHANGED <<priority, current_limits, callers>>
    /\ UNCHANGED varsNotLimiter

\* _request, line 102: self.rate_limiter.update_limits(dict(response.headers))
RequestUpdateLimits ==
    /\ call.pc = "responded"
    /\ LET r == update_limits(current_limits, call.response.headers) IN
         /\ current_limits' = r.limits
         /\ call' = [call EXCEPT
                 !.before = current_limits,
                 !.steps = Append(@, "update_limits"),
                 !.pc = IF r.raised = "none" THEN "updated" ELSE "done",
                 !.outcome = r.raised]
    /\ UNCHANGED <<priority, callers>>
    /\ UNCHANGED varsNotLimiter

\* _request, line 105: await self._handle_errors(response)
RequestHandleErrors ==
    /\ call.pc = "updated"
    /\ LET e == handle_errors(call.response.status_code) IN
         call' = [call EXCEPT
                 !.steps = Append(@, "handle_errors"),
                 !.pc = IF e = "none" THEN "classified" ELSE "done",
                 !.outcome = e]
    /\ UNCHANGED <<priority, current_limits, callers>>
    /\ UNCHANGED varsNotLimiter

\* _request, line 108: await self.rate_limiter.wait_if_needed()
RequestWaitIfNeeded ==
    /\ call.pc = "classified"
    /\ call' = [call EXCEPT
            !.steps = Append(@, "wait_if_needed"),
            !.sleeps = @ \o wait_if_needed(current_limits, priority),
            !.pc = "waited"]
    /\ UNCHANGED <<priority, current_limits, callers>>
    /\ UNCHANGED varsNotLimiter

\* _request, lines 110-114: return {} for 204, else response.json()
RequestReturn ==
    /\ call.pc = "waited"
    /\ call' = [call EXCEPT
            !.pc = "done",
            !.outcome = response_result(call.response)]
    /\ UNCHANGED <<priority, current_limits, callers>>
    /\ UNCHANGED varsNotLimiter

\* control is back with the caller (result or exception); the client is free
\* for its next call
RequestDone ==
    /\ call.pc = "done"
    /\ call' = IdleCall
    /\ UNCHANGED <<priority, current_limits, callers>>
    /\ UNCHANGED varsNotLimiter

(***************************************************************************)
(* Identifiers, bounds and the start-up state of the ingestion part        *)
(***************************************************************************)
ActivityIds == {1, 2}
AthleteIds == {7, 8}

\* the webhook events of an activity (object_type "activity")
Aspects == {"create", "update", "delete"}
WebhookEventSchema(id, aspect, owner) ==
    [object_type |-> "activity", object_id |-> id, aspect_type |-> aspect,
     owner_id |-> owner]

\* an athlete event: object_id is the athlete
AthleteEvent(aspect, owner) ==
    [object_type |-> "athlete", object_id |-> owner, aspect_type |-> aspect,
     owner_id |-> owner]

\* request bodies of POST /webhooks/strava that are no event: JSON documents
\* that WebhookEventSchema.model_validate rejects, and text that is no JSON
BadBodies ==
    {[json |-> TRUE, object_type |-> "club", aspect_type |-> "create"],
     [json |-> TRUE, object_type |-> "activity", aspect_type |-> "rename"],
     [json |-> TRUE, object_type |-> "activity", aspect_type |-> "missing"],
     [json |-> FALSE, object_type |-> "none", aspect_type |-> "none"]}

\* WebhookEventSchema.model_validate: the Literal fields
model_validate(body) ==
    /\ body.object_type \in {"activity", "athlete"}
    /\ body.aspect_type \in {"create", "update", "delete"}

NoRequest == [request |-> "none", status |-> 0, body |-> "none", queued |-> 0]

\* settings.STRAVA_VERIFY_TOKEN and the query parameters a caller may send
STRAVA_VERIFY_TOKEN == "s3cret"
HubModes == {"subscribe", "unsubscribe", "Subscribe", ""}
HubChallenges == {"15f7d1a91c1f40f8", "0", "", " x ", "subscribe", "s3cret"}
HubVerifyTokens == {"s3cret", "S3CRET", "s3cret ", "", "guess"}

NoValidation ==
    [hub_mode |-> "none", hub_challenge |-> "none", hub_verify_token |-> "none",
     response |-> [status_code |-> 0, detail |-> "none", hub_challenge |-> None]]

\* webhook_validation with the mode tested before the token
webhook_validation_mode_first(hub_mode, hub_challenge, hub_verify_token) ==
    IF hub_mode # "subscribe"
    THEN [status_code |-> 400, detail |-> "Invalid hub mode", hub_challenge |-> None]
    ELSE IF hub_verify_token # STRAVA_VERIFY_TOKEN
    THEN [status_code |-> 403, detail |-> "Invalid verify token", hub_challenge |-> None]
    ELSE [status_code |-> 200, detail |-> "none", hub_challenge |-> Some(hub_challenge)]

\* webhook_validation, lines 42-53: the response; hub_challenge is the value
\* under the key "hub.challenge" of the JSON body, absent from an error
webhook_validation(hub_mode, hub_challenge, hub_verify_token) ==
    IF hub_verify_token # STRAVA_VERIFY_TOKEN
    THEN [status_code |-> 403, detail |-> "Invalid verify token", hub_challenge |-> None]
    ELSE IF hub_mode # "subscribe"
    THEN [status_code |-> 400, detail |-> "Invalid hub mode", hub_challenge |-> None]
    ELSE [status_code |-> 200, detail |-> "none", hub_challenge |-> Some(hub_challenge)]

\* webhook_event answering 200 to a body of invalid shape
webhook_response_lenient(json, valid) ==
    IF ~json
    THEN [request |-> "not_json", status |-> 500, body |-> "Internal Server Error",
          queued |-> 0]
    ELSE [request |-> IF valid THEN "event" ELSE "invalid_shape", status |-> 200,
          body |-> "success", queued |-> IF valid THEN 1 ELSE 0]

\* webhook_event, lines 77-121: the response and the number of tasks added.
\* request.json() is outside the try: its error is not turned into a 400.
webhook_response(json, valid) ==
    IF ~json
    THEN [request |-> "not_json", status |-> 500, body |-> "Internal Server Error",
          queued |-> 0]
    ELSE IF ~valid
    THEN [request |-> "invalid_shape", status |-> 400, body |-> "Invalid event format",
          queued |-> 0]
    ELSE [request |-> "event", status |-> 200, body |-> "success", queued |-> 1]

\* refresh_token_if_needed and update_tokens (auth/service.py:37-94): an
\* expired token is replaced by the next one and committed
refresh_token_if_needed(tok, athlete_id) ==
    IF tok[athlete_id].expired
    THEN [tok EXCEPT ![athlete_id] = [gen |-> @.gen + 1, expired |-> FALSE]]
    ELSE tok

\* bounds of the ingestion model
MaxRefreshes == 1
MaxTasks == 2
MaxChanges == 2
MaxDeliveries == 2
MaxFaults == 1
MaxPages == 2
MaxPageItems == 2

TaskIds == 1..MaxTasks

\* A storage session is named by the code that opened it: the n-th
\* session_maker() call of handle_*_event_background (webhooks/router.py:151,
\* 198), or the get_session dependency of a request (dependencies.py:26).
Session(opened_by, n) == [opened_by |-> opened_by, n |-> n]
NoSession == Session("none", 0)

\* A request sent to the remote API, with the priority of the limiter it
\* went through ("none": through no limiter)
RemoteCall(request, limiter) == [request |-> request, limiter |-> limiter]

\* a client whose limiter has the default priority, whatever is asked for
get_client_for_athlete_default(priority_) == "high"

\* src/strava/service.py, lines 61-64: AsyncRateLimiter(priority=priority),
\* the priority of the limiter of the client returned
get_client_for_athlete(priority_) == priority_

\* auth/service.py, lines 75-82: the token is refreshed by a stravalib
\* Client() of its own, which has no AsyncRateLimiter
RefreshCalls(expired) ==
    IF expired THEN <<RemoteCall("refresh_access_token", "none")>> ELSE <<>>

\* calls counts the requests the task has sent to the remote API,
\* remote_calls lists them; priority is that of the limiter of the task's
\* client; db is the
\* session the task works on
FreeTask == [pc |-> "free", event |-> WebhookEventSchema(0, "none", 0),
             data |-> None, result |-> "none", calls |-> 0, db |-> NoSession,
             priority |-> "none", remote_calls |-> <<>>]
\* fetched_pages, fetched_items and written record what the run has done so
\* far (non-empty pages received, items in them, rows written); requests the
\* query parameters of its calls of get_activities; result is the dict it
\* returns
IdleSync == [pc |-> "idle", athlete_id |-> 0, page |-> 1, activities |-> <<>>,
             data |-> None, synced_count |-> 0, updated_count |-> 0,
             errors |-> <<>>, broken |-> FALSE,
             fetched_pages |-> 0, fetched_items |-> 0, written |-> 0,
             requests |-> <<>>, priority |-> "none", remote_calls |-> <<>>,
             result |-> None, db |-> NoSession]

\* GET /auth/callback: pc is the request's position (its get_session
\* dependency is torn down at "closed"), background the state of the backfill
\* it scheduled, db the session get_session opened for it
IdleOAuth == [pc |-> "idle", athlete_id |-> 0, background |-> "none", db |-> NoSession]

\* deauthorize_user: revoke is the outcome of the remote call, deleted the
\* ids of the rows its DELETE statement has removed in the open transaction
IdleDeauth == [pc |-> "idle", athlete_id |-> 0, revoke |-> "none", deleted |-> {},
               result |-> "none"]

\* the state of the ingestion part after start-up: one authorized athlete,
\* nothing on the remote yet
InitIngest ==
    /\ users = {7}
    /\ remote = [id \in ActivityIds |-> [state |-> "new", v |-> 0]]
    /\ pending = {}
    /\ tasks = [t \in TaskIds |-> FreeTask]
    /\ sync = IdleSync
    /\ budget = [changes |-> 0, deliveries |-> 0, faults |-> 0]
    /\ http = NoRequest
    /\ tokens = [a \in AthleteIds |-> [gen |-> 0, expired |-> FALSE]]
    /\ validation = NoValidation
    /\ oauth = IdleOAuth
    /\ deauth = IdleDeauth
    /\ scoring = [op |-> "none"]

InitLimiter ==
    /\ priority \in Priorities
    /\ current_limits = None
    /\ call = IdleCall
    /\ callers = IdleCallers
    /\ activities = <<>>
    /\ now = 0
    /\ hist = <<>>
    /\ InitIngest

NextLimiter ==
    \/ RequestExecute
    \/ RequestUpdateLimits
    \/ RequestHandleErrors
    \/ RequestWaitIfNeeded
    \/ RequestReturn
    \/ RequestDone

SpecLimiter == InitLimiter /\ [][NextLimiter]_vars

(***************************************************************************)
(* Concurrent callers of one client: each coroutine runs _request; between *)
(* two awaits (client.request, _handle_errors, wait_if_needed) no other    *)
(* coroutine runs, so update_limits, which awaits nothing, is one step.    *)
(***************************************************************************)
\* the quota headers of the responses: two complete pairs that differ in
\* every value, a usage that does not parse, a limit of one field, none
QuotaHeaders(usage, limit) ==
    [n \in {USAGE_NAME, LIMIT_NAME} |-> IF n = USAGE_NAME THEN usage ELSE limit]
ConcurrentHeaders ==
    {QuotaHeaders(<<IntField(100), IntField(0)>>, <<IntField(600), IntField(20000)>>),
     QuotaHeaders(<<IntField(600), IntField(20000)>>, <<IntField(100), IntField(1000)>>),
     QuotaHeaders(<<BadField, IntField(0)>>, <<IntField(600), IntField(20000)>>),
     QuotaHeaders(<<IntField(100), IntField(0)>>, <<IntField(600)>>),
     [n \in {OTHER_NAME} |-> <<BadField>>]}
ConcurrentResponses ==
    [status_code : {200, 429}, headers : ConcurrentHeaders, body : {"json"}]

\* line 97: response = await client.request(...)
ConcurrentExecute ==
    /\ \E c \in CallerIds, r \in ConcurrentResponses :
         /\ callers[c].pc = "idle"
         /\ callers' = [callers EXCEPT ![c] =
                [IdleCall EXCEPT !.pc = "responded", !.response = r,
                                 !.steps = <<"execute">>]]
    /\ UNCHANGED <<priority, current_limits, call>>
    /\ UNCHANGED varsNotLimiter

\* line 102: self.rate_limiter.update_limits(dict(response.headers))
ConcurrentUpdateLimits ==
    /\ \E c \in CallerIds :
         /\ callers[c].pc = "responded"
         /\ LET r == update_limits(current_limits, callers[c].response.headers) IN
              /\ current_limits' = r.limits
              /\ callers' = [callers EXCEPT ![c] = [@ EXCEPT
                      !.before = current_limits,
                      !.steps = Append(@, "update_limits"),
                      !.pc = IF r.raised = "none" THEN "updated" ELSE "done",
                      !.outcome = r.raised]]
    /\ UNCHANGED <<priority, call>>
    /\ UNCHANGED varsNotLimiter

\* line 105: await self._handle_errors(response)
ConcurrentHandleErrors ==
    /\ \E c \in CallerIds :
         /\ callers[c].pc = "updated"
         /\ LET e == handle_errors(callers[c].response.status_code) IN
              callers' = [callers EXCEPT ![c] = [@ EXCEPT
                      !.steps = Append(@, "handle_errors"),
                      !.pc = IF e = "none" THEN "classified" ELSE "done",
                      !.outcome = e]]
    /\ UNCHANGED <<priority, current_limits, call>>
    /\ UNCHANGED varsNotLimiter

\* line 108: await self.rate_limiter.wait_if_needed(): the snapshot is read
\* once (rate_limiter.py:64-67), whoever wrote it
ConcurrentWaitIfNeeded ==
    /\ \E c \in CallerIds :
         /\ callers[c].pc = "classified"
         /\ callers' = [callers EXCEPT ![c] = [@ EXCEPT
                 !.steps = Append(@, "wait_if_needed"),
                 !.before = current_limits,
                 !.sleeps = @ \o wait_if_needed(current_limits, priority),
                 !.pc = "waited"]]
    /\ UNCHANGED <<priority, current_limits, call>>
    /\ UNCHANGED varsNotLimiter

\* lines 110-114 or the exception: the call ends, the caller may call again
ConcurrentReturn ==
    /\ \E c \in CallerIds :
         /\ callers[c].pc \in {"waited", "done"}
         /\ callers' = [callers EXCEPT ![c] = IdleCall]
    /\ UNCHANGED <<priority, current_limits, call>>
    /\ UNCHANGED varsNotLimiter

NextConcurrent ==
    \/ ConcurrentExecute
    \/ ConcurrentUpdateLimits
    \/ ConcurrentHandleErrors
    \/ ConcurrentWaitIfNeeded
    \/ ConcurrentReturn

SpecConcurrent == InitLimiter /\ [][NextConcurrent]_vars

(***************************************************************************)
(*        src/strava/schemas.py, src/activities/models.py: the data        *)
(***************************************************************************)
\* the athlete a remote activity belongs to
OwnerOf(id) == IF id \in {1, 2} THEN 7 ELSE 8

\* The field values the remote sends: two versions of a record.  Optional
\* fields are None or <<value>>; distances and speeds are whole numbers.
Versions == {1, 2}

\* ActivitySchema: a validated activity of the remote API
ActivitySchema(id, athlete, v) ==
    [id |-> id,
     athlete |-> athlete,
     name |-> IF v = 1 THEN "Morning Run" ELSE "City Race",
     type |-> IF v = 1 THEN "Ride" ELSE "Run",
     sport_type |-> IF v = 1 THEN "Ride" ELSE "TrailRun",
     workout_type |-> IF v = 1 THEN None ELSE Some(1),
     distance |-> IF v = 1 THEN 5000 ELSE 10000,
     moving_time |-> IF v = 1 THEN 1800 ELSE 3600,
     elapsed_time |-> IF v = 1 THEN 1900 ELSE 3700,
     total_elevation_gain |-> IF v = 1 THEN 10 ELSE 50,
     average_speed |-> IF v = 1 THEN None ELSE Some(3),
     max_speed |-> IF v = 1 THEN None ELSE Some(5),
     start_date |-> IF v = 1 THEN 100 ELSE 200,
     start_date_local |-> IF v = 1 THEN 105 ELSE 201,
     timezone |-> IF v = 1 THEN "Asia/Almaty" ELSE "Europe/London",
     kudos_count |-> IF v = 1 THEN None ELSE Some(3),
     comment_count |-> IF v = 1 THEN Some(0) ELSE Some(1),
     athlete_count |-> IF v = 1 THEN Some(0) ELSE Some(2)]

Payloads ==
    {ActivitySchema(id, OwnerOf(id), v) : id \in ActivityIds, v \in Versions}

\* Python's "x or d" on an Optional[int]: d when x is None or 0
OrDefault(x, d) == IF IsNone(x) \/ Get(x) = 0 THEN d ELSE Get(x)

\* activity_data.model_dump(mode="json"): every field of the schema, by name
model_dump(activity_data) == activity_data

\* create_activity, lines 63-84: the Activity built from a payload, with the
\* column defaults of models.py (flags False, created_at and updated_at now)
NewActivity(activity_data, t) ==
    [id |-> activity_data.id,
     athlete_id |-> activity_data.athlete,
     name |-> activity_data.name,
     type |-> activity_data.type,
     sport_type |-> activity_data.sport_type,
     workout_type |-> activity_data.workout_type,
     distance |-> activity_data.distance,
     moving_time |-> activity_data.moving_time,
     elapsed_time |-> activity_data.elapsed_time,
     total_elevation_gain |-> activity_data.total_elevation_gain,
     average_speed |-> activity_data.average_speed,
     max_speed |-> activity_data.max_speed,
     start_date |-> activity_data.start_date,
     start_date_local |-> activity_data.start_date_local,
     timezone |-> activity_data.timezone,
     kudos_count |-> OrDefault(activity_data.kudos_count, 0),
     comment_count |-> OrDefault(activity_data.comment_count, 0),
     athlete_count |-> OrDefault(activity_data.athlete_count, 1),
     manual |-> FALSE,
     private |-> FALSE,
     flagged |-> FALSE,
     raw_data |-> model_dump(activity_data),
     created_at |-> t,
     updated_at |-> t]

\* update_activity with the social counters added to the stored ones
UpdatedActivity_accumulate(activity, activity_data, t) ==
    [activity EXCEPT
        !.name = activity_data.name,
        !.type = activity_data.type,
        !.sport_type = activity_data.sport_type,
        !.workout_type = activity_data.workout_type,
        !.distance = activity_data.distance,
        !.moving_time = activity_data.moving_time,
        !.elapsed_time = activity_data.elapsed_time,
        !.total_elevation_gain = activity_data.total_elevation_gain,
        !.average_speed = activity_data.average_speed,
        !.max_speed = activity_data.max_speed,
        !.kudos_count = @ + OrDefault(activity_data.kudos_count, 0),
        !.comment_count = @ + OrDefault(activity_data.comment_count, 0),
        !.athlete_count = OrDefault(activity_data.athlete_count, 1),
        !.raw_data = model_dump(activity_data),
        !.updated_at = t]

\* an update that takes the owner and the creation time of the payload
UpdatedActivity_as_new(activity, activity_data, t) ==
    [NewActivity(activity_data, t) EXCEPT !.id = activity.id]

\* update_activity, lines 116-130: the assignments to the loaded row
UpdatedActivity(activity, activity_data, t) ==
    [activity EXCEPT
        !.name = activity_data.name,
        !.type = activity_data.type,
        !.sport_type = activity_data.sport_type,
        !.workout_type = activity_data.workout_type,
        !.distance = activity_data.distance,
        !.moving_time = activity_data.moving_time,
        !.elapsed_time = activity_data.elapsed_time,
        !.total_elevation_gain = activity_data.total_elevation_gain,
        !.average_speed = activity_data.average_speed,
        !.max_speed = activity_data.max_speed,
        !.kudos_count = OrDefault(activity_data.kudos_count, 0),
        !.comment_count = OrDefault(activity_data.comment_count, 0),
        !.athlete_count = OrDefault(activity_data.athlete_count, 1),
        !.raw_data = model_dump(activity_data),
        !.updated_at = t]

(***************************************************************************)
(* The table.  Rows are kept in a sequence, so that two rows with one id   *)
(* and equal columns would still be two rows; the primary key of           *)
(* Activity.id is what the INSERT checks.                                  *)
(***************************************************************************)
RowsWithId(table, id) == {i \in 1..Len(table) : table[i].id = id}

\* get_activity: select(Activity).filter(Activity.id == activity_id),
\* scalar_one_or_none()
get_activity(table, id) ==
    IF RowsWithId(table, id) = {} THEN None
    ELSE Some(table[CHOOSE i \in RowsWithId(table, id) : TRUE])

\* INSERT without the primary key
DbInsert_no_primary_key(table, row) ==
    [ok |-> TRUE, table |-> Append(table, row)]

\* an INSERT whose row stays in the table when the commit fails
DbInsert_failed_row_stays(table, row) ==
    IF RowsWithId(table, row.id) # {}
    THEN [ok |-> FALSE, table |-> Append(table, row)]
    ELSE [ok |-> TRUE, table |-> Append(table, row)]

\* INSERT at commit: IntegrityError (ok = FALSE) when the primary key exists
DbInsert(table, row) ==
    IF RowsWithId(table, row.id) # {}
    THEN [ok |-> FALSE, table |-> table]
    ELSE [ok |-> TRUE, table |-> Append(table, row)]

\* an UPDATE without its WHERE clause: every row takes the new values
DbUpdate_every_row(table, id, activity_data, t) ==
    IF RowsWithId(table, id) = {}
    THEN [ok |-> FALSE, table |-> table]
    ELSE [ok |-> TRUE,
          table |-> [i \in 1..Len(table) |->
                       UpdatedActivity(table[i], activity_data, t)]]

\* UPDATE ... WHERE id = :id at commit, writing the columns update_activity
\* assigned; StaleDataError (ok = FALSE) when no row matches any more
DbUpdate(table, id, activity_data, t) ==
    IF RowsWithId(table, id) = {}
    THEN [ok |-> FALSE, table |-> table]
    ELSE [ok |-> TRUE,
          table |-> [i \in 1..Len(table) |->
                       IF table[i].id = id
                       THEN UpdatedActivity(table[i], activity_data, t)
                       ELSE table[i]]]

RECURSIVE Without(_, _)
Without(table, id) ==
    IF table = <<>> THEN <<>>
    ELSE IF Head(table).id = id THEN Without(Tail(table), id)
    ELSE <<Head(table)>> \o Without(Tail(table), id)

\* a delete that is never flushed
DbDelete_not_committed(table, id) == table

\* DELETE FROM activities WHERE id = :id at commit
DbDelete(table, id) == Without(table, id)

(***************************************************************************)
(* src/activities/service.py called from one session, one call at a time  *)
(***************************************************************************)
MaxClock == 2

\* create_activity run to completion: the table afterwards
create_activity(table, activity_data, t) ==
    LET existing == get_activity(table, activity_data.id) IN
    IF IsSome(existing)
    THEN DbUpdate(table, Get(existing).id, activity_data, t).table
    ELSE DbInsert(table, NewActivity(activity_data, t)).table

\* delete_activity run to completion: the table afterwards and the result
delete_activity(table, id) ==
    LET activity == get_activity(table, id) IN
    IF IsNone(activity)
    THEN [table |-> table, result |-> FALSE]
    ELSE [table |-> DbDelete(table, id), result |-> TRUE]

\* hist: the last call with the table it found, after the call before it
Record(op, p, existed) ==
    hist' = (IF Len(hist) = 0 THEN <<>>
             ELSE <<[hist[Len(hist)] EXCEPT !.before = <<>>]>>)
            \o <<[op |-> op, payload |-> p, before |-> activities, existed |-> existed]>>

\* time passes
Tick ==
    /\ now < MaxClock
    /\ now' = now + 1
    /\ UNCHANGED <<activities, hist>>
    /\ UNCHANGED varsLimiter
    /\ UNCHANGED varsIngest

\* a caller upserts a payload: create_activity(db, activity_data)
AdapterCreate ==
    /\ \E p \in Payloads :
         /\ activities' = create_activity(activities, p, now)
         /\ Record("create_activity", p, IsSome(get_activity(activities, p.id)))
    /\ UNCHANGED now
    /\ UNCHANGED varsLimiter
    /\ UNCHANGED varsIngest

\* a caller deletes by id: delete_activity(db, activity_id)
AdapterDelete ==
    /\ \E id \in ActivityIds :
         /\ activities' = delete_activity(activities, id).table
         /\ Record("delete_activity", ActivitySchema(id, OwnerOf(id), 1),
                   delete_activity(activities, id).result)
    /\ UNCHANGED now
    /\ UNCHANGED varsLimiter
    /\ UNCHANGED varsIngest

InitAdapter ==
    /\ priority = "high"
    /\ current_limits = None
    /\ call = IdleCall
    /\ callers = IdleCallers
    /\ activities = <<>>
    /\ now = 0
    /\ hist = <<>>
    /\ InitIngest

NextAdapter ==
    \/ Tick
    \/ AdapterCreate
    \/ AdapterDelete

SpecAdapter == InitAdapter /\ [][NextAdapter]_vars

\* a caller updates a stored activity: update_activity(db, activity,
\* activity_data), with a payload of the activity's id that names any athlete
AdapterUpdate ==
    /\ \E i \in DOMAIN activities, athlete \in AthleteIds, v \in Versions :
         LET p == ActivitySchema(activities[i].id, athlete, v) IN
         /\ activities' = DbUpdate(activities, activities[i].id, p, now).table
         /\ Record("update_activity", p, TRUE)
    /\ UNCHANGED now
    /\ UNCHANGED varsLimiter
    /\ UNCHANGED varsIngest

NextWrites ==
    \/ Tick
    \/ AdapterCreate
    \/ AdapterUpdate

SpecWrites == InitAdapter /\ [][NextWrites]_vars

(***************************************************************************)
(* The remote system: it holds the activity records, changes them and      *)
(* emits one webhook event per change.  An activity id is created once;    *)
(* a deleted id does not come back.                                        *)
(***************************************************************************)
Live(id) == remote[id].state = "live"
RemoteRecord(id) == ActivitySchema(id, OwnerOf(id), remote[id].v)

Emit(id, aspect) ==
    pending' = pending \cup {WebhookEventSchema(id, aspect, OwnerOf(id))}

RemoteCreate ==
    /\ budget.changes < MaxChanges
    /\ \E id \in ActivityIds, v \in Versions :
         /\ remote[id].state = "new"
         /\ remote' = [remote EXCEPT ![id] = [state |-> "live", v |-> v]]
         /\ Emit(id, "create")
    /\ budget' = [budget EXCEPT !.changes = @ + 1]
    /\ UNCHANGED <<scoring, deauth, oauth, validation, http, tokens, users, tasks, sync>>
    /\ UNCHANGED <<varsLimiter, varsAdapter>>

RemoteUpdate ==
    /\ budget.changes < MaxChanges
    /\ \E id \in ActivityIds, v \in Versions :
         /\ Live(id)
         /\ v # remote[id].v
         /\ remote' = [remote EXCEPT ![id] = [state |-> "live", v |-> v]]
         /\ Emit(id, "update")
    /\ budget' = [budget EXCEPT !.changes = @ + 1]
    /\ UNCHANGED <<scoring, deauth, oauth, validation, http, tokens, users, tasks, sync>>
    /\ UNCHANGED <<varsLimiter, varsAdapter>>

RemoteDelete ==
    /\ budget.changes < MaxChanges
    /\ \E id \in ActivityIds :
         /\ Live(id)
         /\ remote' = [remote EXCEPT ![id] = [state |-> "gone", v |-> 0]]
         /\ Emit(id, "delete")
    /\ budget' = [budget EXCEPT !.changes = @ + 1]
    /\ UNCHANGED <<scoring, deauth, oauth, validation, http, tokens, users, tasks, sync>>
    /\ UNCHANGED <<varsLimiter, varsAdapter>>

(***************************************************************************)
(* src/webhooks/router.py: webhook_event enqueues one background task per  *)
(* event; handle_activity_event runs in a session of its own and is        *)
(* interleaved with the other tasks at its awaits.                         *)
(***************************************************************************)
\* a row deleted by a transaction that is still open is locked: another
\* session's INSERT, UPDATE or DELETE of that id waits for the commit
Locked(id) == deauth.pc = "commit" /\ id \in deauth.deleted

Finish(t, result) ==
    tasks' = [tasks EXCEPT ![t] = [@ EXCEPT !.pc = "done", !.result = result]]
Goto(t, pc) == tasks' = [tasks EXCEPT ![t] = [@ EXCEPT !.pc = pc]]

\* webhook_event, lines 77-121: the event is validated and its task queued
\* (in the first free slot); handle_activity_event, lines 238, 273, 306,
\* dispatches on aspect_type.  The remote delivers pending events in any
\* order and may deliver one again.
webhook_event ==
    /\ budget.deliveries < MaxDeliveries
    /\ \E e \in pending, t \in TaskIds, again \in BOOLEAN :
         /\ tasks[t].pc \in {"free", "done"}
         /\ \A u \in 1..(t - 1) : tasks[u].pc \notin {"free", "done"}
         /\ tasks' = [tasks EXCEPT ![t] =
                [FreeTask EXCEPT
                    !.pc = IF e.object_type = "athlete" THEN "athlete"
                           ELSE IF e.aspect_type = "delete" THEN "delete_lookup"
                           ELSE "client",
                    !.event = e,
                    !.db = Session("handle_activity_event_background", t)]]
         /\ pending' = IF again THEN pending ELSE pending \ {e}
         /\ http' = webhook_response(TRUE, model_validate(e))
    /\ budget' = [budget EXCEPT !.deliveries = @ + 1]
    /\ UNCHANGED <<scoring, deauth, oauth, validation, tokens, users, remote, sync>>
    /\ UNCHANGED <<varsLimiter, varsAdapter>>

\* webhook_event, lines 77-84: a body that is no event; nothing is queued
webhook_event_rejected ==
    /\ \E b \in BadBodies :
         http' = webhook_response(b.json, b.json /\ model_validate(b))
    /\ UNCHANGED <<scoring, deauth, oauth, validation, tokens, users, remote, pending, tasks, sync, budget>>
    /\ UNCHANGED <<varsLimiter, varsAdapter>>

\* the remote reports a change of an athlete's profile
RemoteAthleteUpdate ==
    /\ budget.changes < MaxChanges
    /\ \E a \in AthleteIds : pending' = pending \cup {AthleteEvent("update", a)}
    /\ budget' = [budget EXCEPT !.changes = @ + 1]
    /\ UNCHANGED <<scoring, deauth, oauth, validation, http, tokens, users, remote, tasks, sync>>
    /\ UNCHANGED <<varsLimiter, varsAdapter>>

\* time passes token_expires_at (User.is_token_expired, auth/models.py:35-36)
TokenExpires ==
    /\ \E a \in users :
         /\ ~tokens[a].expired
         /\ tokens[a].gen < MaxRefreshes
         /\ tokens' = [tokens EXCEPT ![a].expired = TRUE]
    /\ UNCHANGED <<scoring, deauth, oauth, validation, http, users, remote, pending, tasks, sync, budget>>
    /\ UNCHANGED <<varsLimiter, varsAdapter>>

\* a caller posts an athlete event of an aspect the remote does not emit;
\* WebhookEventSchema accepts it
PostAthleteEvent ==
    /\ budget.changes < MaxChanges
    /\ \E a \in AthleteIds, aspect \in {"create", "delete"} :
         pending' = pending \cup {AthleteEvent(aspect, a)}
    /\ budget' = [budget EXCEPT !.changes = @ + 1]
    /\ UNCHANGED <<scoring, deauth, oauth, validation, http, tokens, users, remote, tasks, sync>>
    /\ UNCHANGED <<varsLimiter, varsAdapter>>

\* handle_athlete_event fetching the athlete's profile from the remote
handle_athlete_event_fetches_profile(task) ==
    [task EXCEPT !.pc = "done", !.result = "logged", !.calls = @ + 1]

\* handle_athlete_event, lines 328-355: the event is logged, whatever its
\* aspect_type
handle_athlete_event(task) ==
    [task EXCEPT !.pc = "done", !.result = "logged"]

\* handle_athlete_event_background, lines 198-215
TaskAthlete ==
    /\ \E t \in TaskIds :
         /\ tasks[t].pc = "athlete"
         /\ tasks' = [tasks EXCEPT ![t] = handle_athlete_event(@)]
    /\ UNCHANGED <<scoring, deauth, oauth, validation, http, tokens, users, remote, pending, sync, budget>>
    /\ UNCHANGED <<varsLimiter, varsAdapter>>

\* lines 248, 283: strava_service.get_client_for_athlete(db, athlete_id);
\* ValueError when the athlete has no user row (caught at lines 265, 298)
TaskGetClient ==
    /\ \E t \in TaskIds :
         /\ tasks[t].pc = "client"
         /\ IF tasks[t].event.owner_id \in users
            THEN /\ tasks' = [tasks EXCEPT ![t] = [@ EXCEPT
                          !.pc = "fetch",
                          !.priority = get_client_for_athlete("high"),
                          !.remote_calls =
                              @ \o RefreshCalls(tokens[tasks[t].event.owner_id].expired),
                          !.calls = IF tokens[tasks[t].event.owner_id].expired
                                    THEN @ + 1 ELSE @]]
                 /\ tokens' = refresh_token_if_needed(tokens, tasks[t].event.owner_id)
            ELSE /\ Finish(t, "ValueError")
                 /\ tokens' = tokens
    /\ UNCHANGED <<scoring, deauth, oauth, validation, http, users, remote, pending, sync, budget>>
    /\ UNCHANGED <<varsLimiter, varsAdapter>>

\* get_client_for_athlete, lines 56-58: the token refresh fails
TaskGetClientFails ==
    /\ budget.faults < MaxFaults
    /\ \E t \in TaskIds :
         /\ tasks[t].pc = "client"
         /\ tasks[t].event.owner_id \in users
         /\ Finish(t, "ValueError")
    /\ budget' = [budget EXCEPT !.faults = @ + 1]
    /\ UNCHANGED <<scoring, deauth, oauth, validation, http, tokens, users, remote, pending, sync>>
    /\ UNCHANGED <<varsLimiter, varsAdapter>>

\* lines 251, 284: activity_data = await client.get_activity(activity_id);
\* the remote answers with its record of this moment, 404 when it has none
TaskFetch ==
    /\ \E t \in TaskIds :
         /\ tasks[t].pc = "fetch"
         /\ LET id == tasks[t].event.object_id IN
            IF Live(id)
            THEN tasks' = [tasks EXCEPT ![t] = [@ EXCEPT
                     !.data = Some(RemoteRecord(id)),
                     !.calls = @ + 1,
                     !.remote_calls =
                         Append(@, RemoteCall("get_activity", tasks[t].priority)),
                     !.pc = IF tasks[t].event.aspect_type = "update"
                            THEN "lookup" ELSE "create_lookup"]]
            ELSE tasks' = [tasks EXCEPT ![t] = [@ EXCEPT
                     !.pc = "done", !.result = "ObjectNotFound", !.calls = @ + 1,
                     !.remote_calls =
                         Append(@, RemoteCall("get_activity", tasks[t].priority))]]
    /\ UNCHANGED <<scoring, deauth, oauth, validation, http, tokens, users, remote, pending, sync, budget>>
    /\ UNCHANGED <<varsLimiter, varsAdapter>>

\* client.get_activity fails otherwise: timeout, 429, 5xx
TaskFetchFails ==
    /\ budget.faults < MaxFaults
    /\ \E t \in TaskIds :
         /\ tasks[t].pc = "fetch"
         /\ tasks' = [tasks EXCEPT ![t] = [@ EXCEPT
                !.pc = "done", !.result = "StravaException", !.calls = @ + 1,
                !.remote_calls =
                    Append(@, RemoteCall("get_activity", tasks[t].priority))]]
    /\ budget' = [budget EXCEPT !.faults = @ + 1]
    /\ UNCHANGED <<scoring, deauth, oauth, validation, http, tokens, users, remote, pending, sync>>
    /\ UNCHANGED <<varsLimiter, varsAdapter>>

\* line 287 (update event): existing = await activity_service.get_activity(...)
TaskLookup ==
    /\ \E t \in TaskIds :
         /\ tasks[t].pc = "lookup"
         /\ Goto(t, IF IsSome(get_activity(activities, tasks[t].event.object_id))
                    THEN "update" ELSE "create_lookup")
    /\ UNCHANGED <<scoring, deauth, oauth, validation, http, tokens, users, remote, pending, sync, budget>>
    /\ UNCHANGED <<varsLimiter, varsAdapter>>

\* create_activity, lines 57-60: existing = await self.get_activity(...)
TaskCreateLookup ==
    /\ \E t \in TaskIds :
         /\ tasks[t].pc = "create_lookup"
         /\ Goto(t, IF IsSome(get_activity(activities, Get(tasks[t].data).id))
                    THEN "update" ELSE "insert")
    /\ UNCHANGED <<scoring, deauth, oauth, validation, http, tokens, users, remote, pending, sync, budget>>
    /\ UNCHANGED <<varsLimiter, varsAdapter>>

\* create_activity, lines 63-88: db.add(activity); await db.commit()
TaskInsert ==
    /\ \E t \in TaskIds :
         /\ tasks[t].pc = "insert"
         /\ ~Locked(Get(tasks[t].data).id)
         /\ LET r == DbInsert(activities, NewActivity(Get(tasks[t].data), now)) IN
              /\ activities' = r.table
              /\ Finish(t, IF r.ok THEN "created" ELSE "IntegrityError")
    /\ UNCHANGED <<now, hist>>
    /\ UNCHANGED <<scoring, deauth, oauth, validation, http, tokens, users, remote, pending, sync, budget>>
    /\ UNCHANGED varsLimiter

\* update_activity, lines 116-133: assignments to the loaded row; commit
TaskUpdate ==
    /\ \E t \in TaskIds :
         /\ tasks[t].pc = "update"
         /\ ~Locked(Get(tasks[t].data).id)
         /\ LET r == DbUpdate(activities, Get(tasks[t].data).id,
                              Get(tasks[t].data), now) IN
              /\ activities' = r.table
              /\ Finish(t, IF r.ok THEN "updated" ELSE "StaleDataError")
    /\ UNCHANGED <<now, hist>>
    /\ UNCHANGED <<scoring, deauth, oauth, validation, http, tokens, users, remote, pending, sync, budget>>
    /\ UNCHANGED varsLimiter

\* delete_activity, lines 153-156: activity = await self.get_activity(...)
TaskDeleteLookup ==
    /\ \E t \in TaskIds :
         /\ tasks[t].pc = "delete_lookup"
         /\ IF IsSome(get_activity(activities, tasks[t].event.object_id))
            THEN Goto(t, "delete")
            ELSE Finish(t, "absent")
    /\ UNCHANGED <<scoring, deauth, oauth, validation, http, tokens, users, remote, pending, sync, budget>>
    /\ UNCHANGED <<varsLimiter, varsAdapter>>

\* delete_activity, lines 158-162: await db.delete(activity); commit
TaskDelete ==
    /\ \E t \in TaskIds :
         /\ tasks[t].pc = "delete"
         /\ ~Locked(tasks[t].event.object_id)
         /\ activities' = DbDelete(activities, tasks[t].event.object_id)
         /\ Finish(t, "deleted")
    /\ UNCHANGED <<now, hist>>
    /\ UNCHANGED <<scoring, deauth, oauth, validation, http, tokens, users, remote, pending, sync, budget>>
    /\ UNCHANGED varsLimiter

(***************************************************************************)
(* src/sync/service.py: sync_athlete_activities, one run in a session of   *)
(* its own.  After a commit has failed the session refuses every further   *)
(* statement (PendingRollbackError) until rollback(), which the run never  *)
(* calls: sync.broken.                                                     *)
(***************************************************************************)
\* the pages the remote may answer with: up to MaxPageItems records of the
\* athlete's live activities, none of them twice
PagesOf(athlete_id) ==
    LET ids == {id \in ActivityIds : Live(id) /\ OwnerOf(id) = athlete_id}
        seqs == UNION {[1..n -> ids] : n \in 0..MaxPageItems}
    IN {[i \in DOMAIN q |-> RemoteRecord(q[i])] :
           q \in {q \in seqs : \A i, j \in DOMAIN q : i # j => q[i] # q[j]}}

\* the parameters sent as they are given
get_activities_params_uncapped(page, per_page) ==
    [page |-> page, per_page |-> per_page]

\* src/strava/client.py, line 215: the query parameters of get_activities
\* (the before and after filters are left out of the model)
get_activities_params(page, per_page) ==
    [page |-> page, per_page |-> IF per_page < 200 THEN per_page ELSE 200]

\* the loop leaves the rest of a page and goes to the next one
NextItem_skips_rest(run) ==
    [run EXCEPT !.activities = <<>>, !.page = @ + 1, !.pc = "fetch_page"]

\* the loop with an upper bound of one page
NextItem_single_page(run) ==
    IF Len(run.activities) > 1
    THEN [run EXCEPT !.activities = Tail(@), !.pc = "item_lookup"]
    ELSE [run EXCEPT !.activities = <<>>, !.page = @ + 1, !.pc = "done"]

\* the loop moves to the next item of the page, or to the next page
NextItem(run) ==
    IF Len(run.activities) > 1
    THEN [run EXCEPT !.activities = Tail(@), !.pc = "item_lookup"]
    ELSE [run EXCEPT !.activities = <<>>, !.page = @ + 1, !.pc = "fetch_page"]

\* lines 101-106: the item's exception is recorded (its text is part of the
\* message) and the loop goes on.  No rollback is issued, so after a failed
\* commit the session refuses further statements (PendingRollbackError).
ItemError(run, exc) ==
    NextItem([run EXCEPT
        !.errors = Append(@, [kind |-> "activity", ref |-> Head(run.activities).id,
                              exc |-> exc]),
        !.broken = TRUE])

\* the summary with the number of the page last requested as pages_processed
sync_summary_counts_last_request(run) ==
    [athlete_id |-> run.athlete_id,
     synced_count |-> run.synced_count,
     updated_count |-> run.updated_count,
     total_processed |-> run.synced_count + run.updated_count,
     errors |-> run.errors,
     pages_processed |-> run.page]

\* the summary with the counts dropped once an error was recorded
sync_summary_drop_partial(run) ==
    [athlete_id |-> run.athlete_id,
     synced_count |-> IF run.errors = <<>> THEN run.synced_count ELSE 0,
     updated_count |-> IF run.errors = <<>> THEN run.updated_count ELSE 0,
     total_processed |-> IF run.errors = <<>>
                         THEN run.synced_count + run.updated_count ELSE 0,
     errors |-> run.errors,
     pages_processed |-> run.page - 1]

\* lines 122-129: the summary returned
sync_summary(run) ==
    [athlete_id |-> run.athlete_id,
     synced_count |-> run.synced_count,
     updated_count |-> run.updated_count,
     total_processed |-> run.synced_count + run.updated_count,
     errors |-> run.errors,
     pages_processed |-> run.page - 1]

\* lines 116-129: the run returns its summary
Return(run) == [run EXCEPT !.pc = "done", !.result = Some(sync_summary(run))]

\* POST /sync/activities/{athlete_id} (sync/router.py:45-79): the request
\* runs sync_athlete_activities itself, on the session of its get_session
SyncStart ==
    /\ sync.pc = "idle"
    /\ \E a \in AthleteIds :
         sync' = [IdleSync EXCEPT !.pc = "client", !.athlete_id = a,
                                  !.db = Session("sync_request", 0)]
    /\ UNCHANGED <<scoring, deauth, oauth, validation, http, tokens, users, remote, pending, tasks, budget>>
    /\ UNCHANGED <<varsLimiter, varsAdapter>>

\* lines 52-55: get_client_for_athlete(db, athlete_id, priority="low"),
\* outside the try: its ValueError reaches the caller
SyncGetClient ==
    /\ sync.pc = "client"
    /\ sync' = IF sync.athlete_id \in users
               THEN [sync EXCEPT
                       !.pc = "fetch_page",
                       !.priority = get_client_for_athlete("low"),
                       !.remote_calls = @ \o RefreshCalls(tokens[sync.athlete_id].expired)]
               ELSE [sync EXCEPT !.pc = "raised"]
    /\ tokens' = IF sync.athlete_id \in users
                 THEN refresh_token_if_needed(tokens, sync.athlete_id)
                 ELSE tokens
    /\ UNCHANGED <<scoring, deauth, oauth, validation, http, users, remote, pending, tasks, budget>>
    /\ UNCHANGED <<varsLimiter, varsAdapter>>

\* lines 64-76: activities = await client.get_activities(page=page, ...);
\* an empty page ends the loop
SyncFetchPage ==
    /\ sync.pc = "fetch_page"
    /\ \E page \in PagesOf(sync.athlete_id) :
         /\ sync.page > MaxPages => page = <<>>
         /\ LET run == [sync EXCEPT
                           !.requests = Append(@, get_activities_params(sync.page, 200)),
                           !.remote_calls =
                               Append(@, RemoteCall("get_activities", sync.priority))]
            IN sync' = IF page = <<>>
                       THEN Return(run)
                       ELSE [run EXCEPT !.activities = page, !.pc = "item_lookup",
                                        !.fetched_pages = @ + 1,
                                        !.fetched_items = @ + Len(page)]
    /\ UNCHANGED <<scoring, deauth, oauth, validation, http, tokens, users, remote, pending, tasks, budget>>
    /\ UNCHANGED <<varsLimiter, varsAdapter>>

\* lines 111-114: get_activities raises; the error is recorded, the loop ends
SyncFetchPageFails ==
    /\ budget.faults < MaxFaults
    /\ sync.pc = "fetch_page"
    /\ sync' = Return([sync EXCEPT
                   !.requests = Append(@, get_activities_params(sync.page, 200)),
                   !.remote_calls =
                       Append(@, RemoteCall("get_activities", sync.priority)),
                   !.errors = Append(@, [kind |-> "page", ref |-> sync.page,
                                         exc |-> "StravaException"])])
    /\ budget' = [budget EXCEPT !.faults = @ + 1]
    /\ UNCHANGED <<scoring, deauth, oauth, validation, http, tokens, users, remote, pending, tasks>>
    /\ UNCHANGED <<varsLimiter, varsAdapter>>

\* lines 86-88: existing = await activity_service.get_activity(db, id)
SyncItemLookup ==
    /\ sync.pc = "item_lookup"
    /\ sync' = IF sync.broken
               THEN ItemError(sync, "PendingRollbackError")
               ELSE [sync EXCEPT !.pc =
                       IF IsSome(get_activity(activities, Head(sync.activities).id))
                       THEN "item_update" ELSE "item_create_lookup"]
    /\ UNCHANGED <<scoring, deauth, oauth, validation, http, tokens, users, remote, pending, tasks, budget>>
    /\ UNCHANGED <<varsLimiter, varsAdapter>>

\* line 98 into create_activity, lines 57-60: the second look-up
SyncItemCreateLookup ==
    /\ sync.pc = "item_create_lookup"
    /\ sync' = [sync EXCEPT !.pc =
                  IF IsSome(get_activity(activities, Head(sync.activities).id))
                  THEN "item_create_update" ELSE "item_insert"]
    /\ UNCHANGED <<scoring, deauth, oauth, validation, http, tokens, users, remote, pending, tasks, budget>>
    /\ UNCHANGED <<varsLimiter, varsAdapter>>

\* create_activity, lines 63-88, then line 99: synced_count += 1
SyncItemInsert ==
    /\ sync.pc = "item_insert"
    /\ ~Locked(Head(sync.activities).id)
    /\ LET r == DbInsert(activities, NewActivity(Head(sync.activities), now)) IN
         /\ activities' = r.table
         /\ sync' = IF r.ok
                    THEN NextItem([sync EXCEPT !.synced_count = @ + 1,
                                               !.written = @ + 1])
                    ELSE ItemError(sync, "IntegrityError")
    /\ UNCHANGED <<now, hist>>
    /\ UNCHANGED <<scoring, deauth, oauth, validation, http, tokens, users, remote, pending, tasks, budget>>
    /\ UNCHANGED varsLimiter

\* lines 92-95: update_activity on the row found, then updated_count += 1;
\* or update_activity from inside create_activity, then synced_count += 1
SyncItemUpdate ==
    /\ sync.pc \in {"item_update", "item_create_update"}
    /\ ~Locked(Head(sync.activities).id)
    /\ LET r == DbUpdate(activities, Head(sync.activities).id,
                         Head(sync.activities), now) IN
         /\ activities' = r.table
         /\ sync' = IF ~r.ok THEN ItemError(sync, "StaleDataError")
                    ELSE IF sync.pc = "item_update"
                    THEN NextItem([sync EXCEPT !.updated_count = @ + 1,
                                               !.written = @ + 1])
                    ELSE NextItem([sync EXCEPT !.synced_count = @ + 1,
                                               !.written = @ + 1])
    /\ UNCHANGED <<now, hist>>
    /\ UNCHANGED <<scoring, deauth, oauth, validation, http, tokens, users, remote, pending, tasks, budget>>
    /\ UNCHANGED varsLimiter

InitStore ==
    /\ priority = "high"
    /\ current_limits = None
    /\ call = IdleCall
    /\ callers = IdleCallers
    /\ activities = <<>>
    /\ now = 0
    /\ hist = <<>>
    /\ InitIngest

NextStore ==
    \/ RemoteCreate
    \/ RemoteUpdate
    \/ RemoteDelete
    \/ webhook_event
    \/ TaskGetClient
    \/ TaskGetClientFails
    \/ TaskFetch
    \/ TaskFetchFails
    \/ TaskLookup
    \/ TaskCreateLookup
    \/ TaskInsert
    \/ TaskUpdate
    \/ TaskDeleteLookup
    \/ TaskDelete
    \/ SyncStart
    \/ SyncGetClient
    \/ SyncFetchPage
    \/ SyncFetchPageFails
    \/ SyncItemLookup
    \/ SyncItemCreateLookup
    \/ SyncItemInsert
    \/ SyncItemUpdate

SpecStore == InitStore /\ [][NextStore]_vars

(***************************************************************************)
(* GET /webhooks/strava: the subscription validation, one request at a     *)
(* time with any query parameters.                                         *)
(***************************************************************************)
GetWebhookStrava ==
    /\ \E m \in HubModes, c \in HubChallenges, k \in HubVerifyTokens :
         validation' = [hub_mode |-> m, hub_challenge |-> c, hub_verify_token |-> k,
                        response |-> webhook_validation(m, c, k)]
    /\ UNCHANGED <<scoring, deauth, oauth, http, tokens, users, remote, pending, tasks, sync, budget>>
    /\ UNCHANGED <<varsLimiter, varsAdapter>>

NextValidation == GetWebhookStrava

(***************************************************************************)
(* src/auth/router.py: GET /auth/callback.  A member of the club gets a    *)
(* user row (or new tokens); for a new user the handler schedules          *)
(* sync_athlete_activities as a background task with db=db, the session of *)
(* the request (lines 140-151).  The background task runs once the         *)
(* response is sent.  When the exit code of get_session (session.close())  *)
(* runs depends on the framework version: before the background tasks or   *)
(* after them; never while one is running.                                 *)
(***************************************************************************)
callback ==
    /\ oauth.pc = "idle"
    /\ \E a \in AthleteIds, member \in BOOLEAN :
         LET request == [IdleOAuth EXCEPT !.pc = "responded", !.athlete_id = a,
                                          !.db = Session("callback_request", 0)]
         IN IF ~member
            THEN /\ oauth' = request
                 /\ UNCHANGED <<users, tokens>>
            ELSE IF a \in users
            THEN /\ oauth' = request
                 /\ tokens' = [tokens EXCEPT ![a].expired = FALSE]
                 /\ users' = users
            ELSE /\ oauth' = [request EXCEPT !.background = "queued"]
                 /\ tokens' = [tokens EXCEPT ![a].expired = FALSE]
                 /\ users' = users \cup {a}
    /\ UNCHANGED <<scoring, deauth, validation, http, remote, pending, tasks, sync, budget>>
    /\ UNCHANGED <<varsLimiter, varsAdapter>>

\* dependencies.py:29-33: the exit code of get_session closes the session
get_session_exit ==
    /\ oauth.pc = "responded"
    /\ oauth.background # "running"
    /\ oauth' = [oauth EXCEPT !.pc = "closed"]
    /\ UNCHANGED <<scoring, deauth, validation, http, tokens, users, remote, pending, tasks, sync, budget>>
    /\ UNCHANGED <<varsLimiter, varsAdapter>>

\* the background task of the callback starts: sync_athlete_activities(db=db)
callback_backfill ==
    /\ oauth.background = "queued"
    /\ sync.pc = "idle"
    /\ sync' = [IdleSync EXCEPT !.pc = "client", !.athlete_id = oauth.athlete_id,
                                !.db = oauth.db]
    /\ oauth' = [oauth EXCEPT !.background = "running"]
    /\ UNCHANGED <<scoring, deauth, validation, http, tokens, users, remote, pending, tasks, budget>>
    /\ UNCHANGED <<varsLimiter, varsAdapter>>

\* the background task returns or raises
callback_backfill_end ==
    /\ oauth.background = "running"
    /\ sync.pc \in {"done", "raised"}
    /\ oauth' = [oauth EXCEPT !.background = "finished"]
    /\ UNCHANGED <<scoring, deauth, validation, http, tokens, users, remote, pending, tasks, sync, budget>>
    /\ UNCHANGED <<varsLimiter, varsAdapter>>

SpecValidation == InitStore /\ [][NextValidation]_vars

(***************************************************************************)
(* The webhook endpoint with every kind of request body, and the tasks it  *)
(* queues for activity and athlete events; no backfill.                    *)
(***************************************************************************)
NextWebhook ==
    \/ RemoteCreate
    \/ RemoteUpdate
    \/ RemoteDelete
    \/ RemoteAthleteUpdate
    \/ PostAthleteEvent
    \/ webhook_event
    \/ webhook_event_rejected
    \/ TokenExpires
    \/ TaskAthlete
    \/ TaskGetClient
    \/ TaskGetClientFails
    \/ TaskFetch
    \/ TaskFetchFails
    \/ TaskLookup
    \/ TaskCreateLookup
    \/ TaskInsert
    \/ TaskUpdate
    \/ TaskDeleteLookup
    \/ TaskDelete

SpecWebhook == InitStore /\ [][NextWebhook]_vars

(***************************************************************************)
(* The remote calls of webhook tasks and of a backfill run, with tokens    *)
(* that expire.                                                            *)
(***************************************************************************)
NextPriorities ==
    \/ RemoteCreate
    \/ webhook_event
    \/ TokenExpires
    \/ TaskGetClient
    \/ TaskFetch
    \/ TaskFetchFails
    \/ SyncStart
    \/ SyncGetClient
    \/ SyncFetchPage
    \/ SyncFetchPageFails
    \/ SyncItemLookup
    \/ SyncItemCreateLookup
    \/ SyncItemInsert
    \/ SyncItemUpdate

SpecPriorities == InitStore /\ [][NextPriorities]_vars

(***************************************************************************)
(* A backfill run on its own, against a remote that changes while it runs. *)
(* The run is one coroutine: the event loop resumes it whenever its await  *)
(* completes, which is weak fairness on its steps.  Nothing is assumed of  *)
(* the remote or of the failure of a fetch.                                *)
(***************************************************************************)
SyncStep ==
    \/ SyncGetClient
    \/ SyncFetchPage
    \/ SyncItemLookup
    \/ SyncItemCreateLookup
    \/ SyncItemInsert
    \/ SyncItemUpdate

NextBackfill ==
    \/ RemoteCreate
    \/ RemoteUpdate
    \/ RemoteDelete
    \/ SyncStart
    \/ SyncFetchPageFails
    \/ SyncStep

SpecBackfill == InitStore /\ [][NextBackfill]_vars /\ WF_vars(SyncStep)

(***************************************************************************)
(* src/auth/service.py: deauthorize_user, called by DELETE                 *)
(* /auth/deauthorize/{athlete_id} on the session of the request, while     *)
(* webhook tasks are at work.  The DELETE of the athlete's activities and  *)
(* the DELETE of the user row are one transaction, committed at line 148.  *)
(***************************************************************************)
IdsOfAthlete(table, athlete_id) ==
    {table[i].id : i \in {j \in DOMAIN table : table[j].athlete_id = athlete_id}}

\* the table without the rows of the given ids, the others in their order
RECURSIVE WithoutIds(_, _)
WithoutIds(table, ids) ==
    IF table = <<>> THEN <<>>
    ELSE IF Head(table).id \in ids THEN WithoutIds(Tail(table), ids)
    ELSE <<Head(table)>> \o WithoutIds(Tail(table), ids)

\* lines 130-141: httpx.HTTPError is logged and the function goes on
after_revoke(ok) == "delete_activities"

\* lines 125-127: user = await self.get_user_by_athlete_id(...); None when
\* the athlete has no row (the endpoint answers 404)
deauthorize_user ==
    /\ deauth.pc = "idle"
    /\ \E a \in AthleteIds :
         deauth' = IF a \in users
                   THEN [IdleDeauth EXCEPT !.pc = "revoke", !.athlete_id = a]
                   ELSE [IdleDeauth EXCEPT !.pc = "done", !.athlete_id = a,
                                           !.result = "None"]
    /\ UNCHANGED <<scoring, oauth, validation, http, tokens, users, remote, pending, tasks, sync, budget>>
    /\ UNCHANGED <<varsLimiter, varsAdapter>>

\* lines 130-141: POST /oauth/deauthorize succeeds or raises httpx.HTTPError
DeauthRevoke ==
    /\ deauth.pc = "revoke"
    /\ \E ok \in BOOLEAN :
         deauth' = [deauth EXCEPT !.pc = after_revoke(ok),
                                  !.revoke = IF ok THEN "ok" ELSE "HTTPError",
                                  !.result = IF after_revoke(ok) = "done"
                                             THEN "gave_up" ELSE @]
    /\ UNCHANGED <<scoring, oauth, validation, http, tokens, users, remote, pending, tasks, sync, budget>>
    /\ UNCHANGED <<varsLimiter, varsAdapter>>

\* line 145: await db.execute(delete(Activity).where(athlete_id == ...)): the
\* rows committed at this moment are deleted in the open transaction
DeauthDeleteActivities ==
    /\ deauth.pc = "delete_activities"
    /\ deauth' = [deauth EXCEPT !.pc = "commit",
                                !.deleted = IdsOfAthlete(activities, deauth.athlete_id)]
    /\ UNCHANGED <<scoring, oauth, validation, http, tokens, users, remote, pending, tasks, sync, budget>>
    /\ UNCHANGED <<varsLimiter, varsAdapter>>

\* lines 147-150: await db.delete(user); await db.commit(); return user
DeauthCommit ==
    /\ deauth.pc = "commit"
    /\ activities' = WithoutIds(activities, deauth.deleted)
    /\ users' = users \ {deauth.athlete_id}
    /\ deauth' = [deauth EXCEPT !.pc = "done", !.result = "deleted"]
    /\ UNCHANGED <<now, hist>>
    /\ UNCHANGED <<scoring, oauth, validation, http, tokens, remote, pending, tasks, sync, budget>>
    /\ UNCHANGED varsLimiter

\* lines 151-153: a statement or the commit fails; rollback, then raise
DeauthFails ==
    /\ budget.faults < MaxFaults
    /\ deauth.pc \in {"delete_activities", "commit"}
    /\ deauth' = [deauth EXCEPT !.pc = "done", !.result = "raised"]
    /\ budget' = [budget EXCEPT !.faults = @ + 1]
    /\ UNCHANGED <<scoring, oauth, validation, http, tokens, users, remote, pending, tasks, sync>>
    /\ UNCHANGED <<varsLimiter, varsAdapter>>

NextDeauthorize ==
    \/ RemoteCreate
    \/ webhook_event
    \/ TaskGetClient
    \/ TaskFetch
    \/ TaskCreateLookup
    \/ TaskInsert
    \/ TaskUpdate
    \/ deauthorize_user
    \/ DeauthRevoke
    \/ DeauthDeleteActivities
    \/ DeauthCommit
    \/ DeauthFails

SpecDeauthorize == InitStore /\ [][NextDeauthorize]_vars

(***************************************************************************)
(* Webhook tasks and the backfill scheduled by the OAuth callback, against *)
(* a remote on which activities appear.  The new athlete has no activity   *)
(* yet: the first page of the backfill is empty.                           *)
(***************************************************************************)
NextSessions ==
    \/ RemoteCreate
    \/ webhook_event
    \/ TaskGetClient
    \/ TaskFetch
    \/ TaskCreateLookup
    \/ TaskInsert
    \/ TaskUpdate
    \/ callback
    \/ get_session_exit
    \/ callback_backfill
    \/ callback_backfill_end
    \/ SyncGetClient
    \/ SyncFetchPage

SpecSessions == InitStore /\ [][NextSessions]_vars

(***************************************************************************)
(* src/scoring/calculator.py: the pure functions of the scoring engine.    *)
(* A call is recorded in scoring with its arguments and its result.        *)
(***************************************************************************)
\* bounds of the arguments
MaxMovingTime == 400
MaxDaysActive == 9

\* round(moving_time_seconds / 60) with ties rounded up
calculate_base_points_half_up(moving_time_seconds) ==
    IF moving_time_seconds % 60 >= 30
    THEN moving_time_seconds \div 60 + 1
    ELSE moving_time_seconds \div 60

\* line 23: round(moving_time_seconds / 60).  The quotient is a float; a
\* fraction of exactly one half (30 s) is representable, and Python's round
\* takes it to the even neighbour; any other fraction is at least 1/60 away
\* from one half.
calculate_base_points(moving_time_seconds) ==
    LET q == moving_time_seconds \div 60
        r == moving_time_seconds % 60
    IN IF r < 30 THEN q
       ELSE IF r > 30 THEN q + 1
       ELSE IF q % 2 = 0 THEN q ELSE q + 1

\* line 47: BONUSES = {3: 300, 4: 350, 5: 400, 6: 400}
BONUSES == (3 :> 300) @@ (4 :> 350) @@ (5 :> 400) @@ (6 :> 400)

\* the look-up without the cap at 6 days
calculate_consistency_bonus_uncapped(days_active) ==
    IF days_active \in DOMAIN BONUSES THEN BONUSES[days_active] ELSE 0

\* lines 47-50: capped_days = min(days_active, 6); BONUSES.get(capped_days, 0)
calculate_consistency_bonus(days_active) ==
    LET capped_days == IF days_active < 6 THEN days_active ELSE 6
    IN IF capped_days \in DOMAIN BONUSES THEN BONUSES[capped_days] ELSE 0

\* the docstring of calculate_consistency_bonus, lines 39-44
DocumentedBonus(days_active) ==
    IF days_active = 3 THEN 150
    ELSE IF days_active = 4 THEN 350
    ELSE IF days_active >= 5 THEN 400
    ELSE 0

\* line 66: race_count * 250
calculate_race_bonus(race_count) == race_count * 250

(***************************************************************************)
(* datetime: a naive datetime is the number of ticks since Monday          *)
(* 2024-01-01 00:00, TicksPerDay ticks to the day; the calendar is the     *)
(* Gregorian one.                                                          *)
(***************************************************************************)
TicksPerDay == 4
MaxDay == 20

IsLeap(y) == (y % 4 = 0 /\ y % 100 # 0) \/ y % 400 = 0
DaysInYear(y) == IF IsLeap(y) THEN 366 ELSE 365
DaysInMonth(y, m) ==
    IF m = 2 THEN (IF IsLeap(y) THEN 29 ELSE 28)
    ELSE IF m \in {4, 6, 9, 11} THEN 30 ELSE 31

\* days from 2024-01-01 to the first day of year y, of month m of year y
RECURSIVE DaysBeforeYear(_)
DaysBeforeYear(y) ==
    IF y = 2024 THEN 0
    ELSE IF y > 2024 THEN DaysBeforeYear(y - 1) + DaysInYear(y - 1)
    ELSE DaysBeforeYear(y + 1) - DaysInYear(y)

RECURSIVE DaysBeforeMonth(_, _)
DaysBeforeMonth(y, m) ==
    IF m = 1 THEN 0 ELSE DaysBeforeMonth(y, m - 1) + DaysInMonth(y, m - 1)

\* datetime(y, m, d, 0, 0, 0) plus h ticks
At(y, m, d, h) == (DaysBeforeYear(y) + DaysBeforeMonth(y, m) + d - 1) * TicksPerDay + h

\* date.date() as a day number, date.weekday() (Monday is 0), .year, .month;
\* \div rounds down and % is never negative, also before 2024
DayNumber(date) == date \div TicksPerDay
weekday(date) == DayNumber(date) % 7

RECURSIVE YearFrom(_, _)
YearFrom(y, day) ==
    IF day < DaysBeforeYear(y) THEN YearFrom(y - 1, day)
    ELSE IF day >= DaysBeforeYear(y + 1) THEN YearFrom(y + 1, day)
    ELSE y
YearOf(date) == YearFrom(2024, DayNumber(date))
MonthOf(date) ==
    LET y == YearOf(date)
        n == DayNumber(date) - DaysBeforeYear(y)
    IN CHOOSE m \in 1..12 :
          DaysBeforeMonth(y, m) <= n /\ n < DaysBeforeMonth(y, m) + DaysInMonth(y, m)
DayOfMonth(date) ==
    DayNumber(date) - DaysBeforeYear(YearOf(date))
        - DaysBeforeMonth(YearOf(date), MonthOf(date)) + 1

\* date.replace(hour=0, minute=0, second=0, microsecond=0)
Midnight(date) == DayNumber(date) * TicksPerDay
\* timedelta(days=n)
Days(n) == n * TicksPerDay

\* the week counted from Sunday
get_week_boundaries_from_sunday(date) ==
    LET days_since_sunday == (weekday(date) + 1) % 7
        week_start == Midnight(date - Days(days_since_sunday))
    IN [week_start |-> week_start, week_end |-> week_start + Days(7)]

\* lines 90-100
get_week_boundaries(date) ==
    LET days_since_monday == weekday(date)
        week_start == Midnight(date - Days(days_since_monday))
    IN [week_start |-> week_start, week_end |-> week_start + Days(7)]

WeekBoundaries ==
    /\ \E date \in 0..(Days(MaxDay + 1) - 1) :
         scoring' = [op |-> "week_boundaries", date |-> date,
                     result |-> get_week_boundaries(date)]
    /\ UNCHANGED <<deauth, oauth, validation, http, tokens, users, remote, pending,
                   tasks, sync, budget>>
    /\ UNCHANGED <<varsLimiter, varsAdapter>>

BasePoints ==
    /\ \E s \in 0..MaxMovingTime :
         scoring' = [op |-> "base_points", moving_time_seconds |-> s,
                     points |-> calculate_base_points(s)]
    /\ UNCHANGED <<deauth, oauth, validation, http, tokens, users, remote, pending,
                   tasks, sync, budget>>
    /\ UNCHANGED <<varsLimiter, varsAdapter>>

ConsistencyBonus ==
    /\ \E d \in 0..MaxDaysActive :
         scoring' = [op |-> "consistency_bonus", days_active |-> d,
                     bonus |-> calculate_consistency_bonus(d)]
    /\ UNCHANGED <<deauth, oauth, validation, http, tokens, users, remote, pending,
                   tasks, sync, budget>>
    /\ UNCHANGED <<varsLimiter, varsAdapter>>

(***************************************************************************)
(* src/scoring/service.py: the leaderboards, computed from the rows of     *)
(* table "activities" and the ids of table "users".  The body of           *)
(* get_weekly_leaderboard (lines 45-134) is that of get_range_leaderboard  *)
(* (lines 161-247) with the boundaries of get_week_boundaries.  Hours,     *)
(* kilometres and pace are floats in the code and exact quotients here;    *)
(* the athlete's name is left out.                                         *)
(***************************************************************************)
RECURSIVE SumOf(_, _)
SumOf(f, S) ==
    IF S = {} THEN 0
    ELSE LET x == CHOOSE y \in S : TRUE IN f[x] + SumOf(f, S \ {x})

\* the elements of a set of integers in ascending order
RECURSIVE Ascending(_)
Ascending(S) ==
    IF S = {} THEN <<>>
    ELSE LET m == CHOOSE x \in S : \A y \in S : x <= y
         IN <<m>> \o Ascending(S \ {m})

Rows(table) == {table[i] : i \in DOMAIN table}

\* the filter with the end of the range included
RunsIn_end_included(table, start_date, end_date) ==
    {r \in Rows(table) : /\ r.type = "Run"
                         /\ r.start_date_local >= start_date
                         /\ r.start_date_local <= end_date}

\* lines 161-170: the rows selected by the query
RunsIn(table, start_date, end_date) ==
    {r \in Rows(table) : /\ r.type = "Run"
                         /\ r.start_date_local >= start_date
                         /\ r.start_date_local < end_date}

\* the days counted once per run
DaysActive_per_run(athlete_acts) == Cardinality(athlete_acts)

\* lines 212-215: the number of distinct local dates
DaysActive(athlete_acts) ==
    Cardinality({DayNumber(r.start_date_local) : r \in athlete_acts})

\* lines 218-220: workout_type == 1
RaceCount(athlete_acts) ==
    Cardinality({r \in athlete_acts : r.workout_type = Some(1)})

\* lines 189-243: the entry of one athlete
LeaderboardEntry(athlete_id, athlete_acts) ==
    LET base_points ==
            SumOf([r \in athlete_acts |-> calculate_base_points(r.moving_time)],
                  athlete_acts)
        total_time_seconds == SumOf([r \in athlete_acts |-> r.moving_time], athlete_acts)
        total_distance_meters == SumOf([r \in athlete_acts |-> r.distance], athlete_acts)
        days_active == DaysActive(athlete_acts)
        race_count == RaceCount(athlete_acts)
        consistency_bonus == calculate_consistency_bonus(days_active)
        race_bonus == calculate_race_bonus(race_count)
    IN [athlete_id |-> athlete_id,
        base_points |-> base_points,
        consistency_bonus |-> consistency_bonus,
        race_bonus |-> race_bonus,
        total_points |-> base_points + consistency_bonus + race_bonus,
        days_active |-> days_active,
        race_count |-> race_count,
        total_time |-> Rat(total_time_seconds, 3600),
        total_distance |-> Rat(total_distance_meters, 1000),
        avg_pace |-> IF total_distance_meters > 0
                     THEN Some(Rat(total_time_seconds * 1000, 60 * total_distance_meters))
                     ELSE None]

\* list.sort(key=total_points, reverse=True): stable, entries of equal total
\* keep their order
RECURSIVE InsertEntry(_, _)
InsertEntry(sorted, e) ==
    IF sorted = <<>> THEN <<e>>
    ELSE IF Head(sorted).total_points >= e.total_points
    THEN <<Head(sorted)>> \o InsertEntry(Tail(sorted), e)
    ELSE <<e>> \o sorted

RECURSIVE SortEntries(_)
SortEntries(entries) ==
    IF entries = <<>> THEN <<>>
    ELSE InsertEntry(SortEntries(SubSeq(entries, 1, Len(entries) - 1)),
                     entries[Len(entries)])

\* lines 161-249: athletes in the order of the query (by athlete_id); one
\* without a user row is skipped; one with a total of 0 is left out
get_range_leaderboard(table, user_ids, start_date, end_date) ==
    LET selected == RunsIn(table, start_date, end_date)
        athlete_ids == Ascending({r.athlete_id : r \in selected})
        entry(i) == LeaderboardEntry(athlete_ids[i],
                        {r \in selected : r.athlete_id = athlete_ids[i]})
        kept == {i \in DOMAIN athlete_ids :
                    athlete_ids[i] \in user_ids /\ entry(i).total_points > 0}
        order == Ascending(kept)
    IN SortEntries([k \in DOMAIN order |-> entry(order[k])])

\* lines 23-136
get_weekly_leaderboard(table, user_ids, date) ==
    LET week == get_week_boundaries(date)
    IN get_range_leaderboard(table, user_ids, week.week_start, week.week_end)

\* strftime("%Y-%m-%d") and datetime.fromisoformat(...).date() on its result
DateString(date) == <<YearOf(date), MonthOf(date), DayOfMonth(date)>>
fromisoformat(s) == At(s[1], s[2], s[3], 0)

\* lines 291-301: the runs of the athlete in the week, ordered by
\* start_date_local; the order of runs of equal start is the database's
QueryOrders(selected) ==
    {rows \in [1..Cardinality(selected) -> selected] :
        /\ \A i, j \in DOMAIN rows : i # j => rows[i] # rows[j]
        /\ \A i, j \in DOMAIN rows :
              i < j => rows[i].start_date_local <= rows[j].start_date_local}

BreakdownRuns(table, athlete_id, week_start, week_end) ==
    {r \in Rows(table) : /\ r.athlete_id = athlete_id
                         /\ r.type = "Run"
                         /\ r.start_date_local >= week_start
                         /\ r.start_date_local < week_end}

\* lines 305-327
DailyActivity(activity) ==
    [date |-> DateString(activity.start_date_local),
     activity_id |-> activity.id,
     moving_time_minutes |-> Rat(activity.moving_time, 60),
     distance_km |-> Rat(activity.distance, 1000),
     pace |-> IF activity.distance > 0
              THEN Some(Rat(activity.moving_time * 1000, 60 * activity.distance))
              ELSE None,
     points |-> calculate_base_points(activity.moving_time),
     is_race |-> activity.workout_type = Some(1)]

\* the days counted from the first activity only
BreakdownDays_first_only(daily_activities) ==
    IF daily_activities = <<>> THEN 0 ELSE 1

\* lines 333-337: the distinct dates of the daily activities
BreakdownDays(daily_activities) ==
    Cardinality({DayNumber(fromisoformat(daily_activities[i].date)) :
                    i \in DOMAIN daily_activities})

\* a breakdown of zeros for an athlete without a user row
get_athlete_breakdown_without_user(table, user_ids, athlete_id, date, rows) ==
    [raised |-> "none", athlete_id |-> athlete_id,
     week_start |-> DateString(get_week_boundaries(date).week_start),
     week_end |-> DateString(get_week_boundaries(date).week_end - 1),
     daily_activities |-> <<>>, base_points |-> 0, consistency_bonus |-> 0,
     race_bonus |-> 0, total_points |-> 0, days_active |-> 0]

\* lines 281-362; rows is the result of the query, date the date given or
\* datetime.now()
get_athlete_breakdown(table, user_ids, athlete_id, date, rows) ==
    LET week == get_week_boundaries(date)
    IN IF athlete_id \notin user_ids THEN [raised |-> "ValueError"]
       ELSE LET daily_activities == [i \in DOMAIN rows |-> DailyActivity(rows[i])]
                base_points ==
                    SumOf([i \in DOMAIN rows |-> daily_activities[i].points], DOMAIN rows)
                days_active == BreakdownDays(daily_activities)
                race_count ==
                    Cardinality({i \in DOMAIN rows : daily_activities[i].is_race})
                consistency_bonus == calculate_consistency_bonus(days_active)
                race_bonus == calculate_race_bonus(race_count)
            IN [raised |-> "none",
                athlete_id |-> athlete_id,
                week_start |-> DateString(week.week_start),
                week_end |-> DateString(week.week_end - 1),
                daily_activities |-> daily_activities,
                base_points |-> base_points,
                consistency_bonus |-> consistency_bonus,
                race_bonus |-> race_bonus,
                total_points |-> base_points + consistency_bonus + race_bonus,
                days_active |-> days_active]

\* the runs stored for the leaderboards: up to MaxRuns rows, each one of a
\* few activities around the week of Monday 2024-01-08
MaxRuns == 3
WeekStart == At(2024, 1, 8, 0)
ScoringSamples ==
    {[type |-> "Run", moving_time |-> 1800, start_date_local |-> WeekStart,
      workout_type |-> None, distance |-> 5000],
     [type |-> "Run", moving_time |-> 2400, start_date_local |-> WeekStart + Days(1) + 1,
      workout_type |-> Some(0), distance |-> 7000],
     [type |-> "Run", moving_time |-> 3600, start_date_local |-> WeekStart + Days(2) + 2,
      workout_type |-> Some(1), distance |-> 10000],
     [type |-> "Run", moving_time |-> 20, start_date_local |-> WeekStart + Days(1) + 3,
      workout_type |-> None, distance |-> 0],
     [type |-> "Ride", moving_time |-> 3600, start_date_local |-> WeekStart + Days(3),
      workout_type |-> None, distance |-> 30000],
     [type |-> "Run", moving_time |-> 1800, start_date_local |-> WeekStart + Days(7),
      workout_type |-> Some(1), distance |-> 5000],
     [type |-> "Run", moving_time |-> 2400, start_date_local |-> WeekStart - 1,
      workout_type |-> None, distance |-> 7000]}

ScoringPayload(id, athlete, sample) ==
    [ActivitySchema(id, athlete, 2) EXCEPT
        !.type = sample.type,
        !.moving_time = sample.moving_time,
        !.start_date_local = sample.start_date_local,
        !.workout_type = sample.workout_type,
        !.distance = sample.distance]

\* create_activity stores a fetched activity
StoreRun ==
    /\ Len(activities) < MaxRuns
    /\ \E a \in AthleteIds, sample \in ScoringSamples :
         activities' =
            DbInsert(activities,
                     NewActivity(ScoringPayload(Len(activities) + 1, a, sample), now)).table
    /\ UNCHANGED <<now, hist>>
    /\ UNCHANGED <<scoring, deauth, oauth, validation, http, tokens, users, remote,
                   pending, tasks, sync, budget>>
    /\ UNCHANGED varsLimiter

\* GET /scoring/leaderboard/weekly: a date within the week
WeeklyLeaderboard ==
    /\ \E date \in {WeekStart, WeekStart + Days(6) + 3} :
         scoring' = [op |-> "weekly_leaderboard", date |-> date,
                     start_date |-> get_week_boundaries(date).week_start,
                     end_date |-> get_week_boundaries(date).week_end,
                     entries |-> get_weekly_leaderboard(activities, users, date)]
    /\ UNCHANGED <<deauth, oauth, validation, http, tokens, users, remote, pending,
                   tasks, sync, budget>>
    /\ UNCHANGED <<varsLimiter, varsAdapter>>

\* the leaderboard of a range of dates
RangeLeaderboard ==
    /\ \E start_date \in {WeekStart, WeekStart + Days(2)},
          end_date \in {WeekStart + Days(2), WeekStart + Days(7)} :
         scoring' = [op |-> "range_leaderboard",
                     start_date |-> start_date, end_date |-> end_date,
                     entries |-> get_range_leaderboard(activities, users,
                                                       start_date, end_date)]
    /\ UNCHANGED <<deauth, oauth, validation, http, tokens, users, remote, pending,
                   tasks, sync, budget>>
    /\ UNCHANGED <<varsLimiter, varsAdapter>>

(***************************************************************************)
(* src/scoring/calculator.py, get_period_boundaries, and the dashboard of  *)
(* src/scoring/router.py that calls it.  A label is kept as the values     *)
(* that strftime formats.                                                  *)
(***************************************************************************)
Boundaries(start, end, label) ==
    [raised |-> "none", start |-> start, end |-> end, label |-> label]
ValueError(message) == [raised |-> "ValueError", message |-> message]

\* f"{start:%Y-%m-%d} - {end - timedelta(days=1):%Y-%m-%d}", "%B %Y", str(year)
RangeLabel(start, end) == <<"range", start, end - Days(1)>>
MonthLabel(start) == <<"month", YearOf(start), MonthOf(start)>>
YearLabel(year) == <<"year", year>>

\* an unknown period, or a custom period with a bound missing, shown as the
\* current week
get_period_boundaries_default_week(period, custom_start, custom_end, now_) ==
    LET week == get_week_boundaries(now_)
    IN Boundaries(week.week_start, week.week_end,
                  RangeLabel(week.week_start, week.week_end))

\* lines 131-195; now_ is the value of datetime.now()
get_period_boundaries(period, custom_start, custom_end, now_) ==
    IF period = "this_week" THEN
        LET week == get_week_boundaries(now_)
        IN Boundaries(week.week_start, week.week_end,
                      RangeLabel(week.week_start, week.week_end))
    ELSE IF period = "last_week" THEN
        LET week == get_week_boundaries(now_ - Days(7))
        IN Boundaries(week.week_start, week.week_end,
                      RangeLabel(week.week_start, week.week_end))
    ELSE IF period = "this_month" THEN
        LET start == At(YearOf(now_), MonthOf(now_), 1, 0)
            end == IF MonthOf(start) = 12
                   THEN At(YearOf(start) + 1, 1, 1, 0)
                   ELSE At(YearOf(start), MonthOf(start) + 1, 1, 0)
        IN Boundaries(start, end, MonthLabel(start))
    ELSE IF period = "last_month" THEN
        LET first_of_this_month == At(YearOf(now_), MonthOf(now_), 1, 0)
            start == IF MonthOf(first_of_this_month) = 1
                     THEN At(YearOf(first_of_this_month) - 1, 12, 1, 0)
                     ELSE At(YearOf(first_of_this_month),
                             MonthOf(first_of_this_month) - 1, 1, 0)
        IN Boundaries(start, first_of_this_month, MonthLabel(start))
    ELSE IF period = "this_year" THEN
        LET this_year == YearOf(now_)
        IN Boundaries(At(this_year, 1, 1, 0), At(this_year + 1, 1, 1, 0),
                      YearLabel(this_year))
    ELSE IF period = "last_year" THEN
        LET last_year == YearOf(now_) - 1
        IN Boundaries(At(last_year, 1, 1, 0), At(last_year + 1, 1, 1, 0),
                      YearLabel(last_year))
    ELSE IF period = "custom" THEN
        IF custom_start = None \/ custom_end = None
        THEN ValueError("custom_start and custom_end are required for custom period")
        ELSE LET start == Midnight(custom_start[1])
                 end == Midnight(custom_end[1])
             IN Boundaries(start, end, RangeLabel(start, end))
    ELSE ValueError("Invalid period")

\* the period kinds a caller passes: the seven of the code, one in another
\* case, an unknown one and the empty one
Periods ==
    {"this_week", "last_week", "this_month", "last_month", "this_year", "last_year",
     "custom", "THIS_WEEK", "all_time", ""}

\* the values of datetime.now(): the first and the last day of a year, the
\* leap day, a Sunday in March of the next year
Nows == {At(2024, 1, 1, 0), At(2024, 12, 31, 3), At(2024, 2, 29, 2), At(2025, 3, 2, 1)}

CustomBounds == {None, Some(At(2024, 1, 8, 1)), Some(At(2024, 1, 15, 0))}

PeriodBoundaries ==
    /\ \E period \in Periods, custom_start \in CustomBounds,
          custom_end \in CustomBounds, now_ \in Nows :
         scoring' = [op |-> "period_boundaries", period |-> period,
                     custom_start |-> custom_start, custom_end |-> custom_end,
                     now |-> now_,
                     result |-> get_period_boundaries(period, custom_start,
                                                      custom_end, now_)]
    /\ UNCHANGED <<deauth, oauth, validation, http, tokens, users, remote, pending,
                   tasks, sync, budget>>
    /\ UNCHANGED <<varsLimiter, varsAdapter>>

\* datetime.strptime(s, "%Y-%m-%d") on the strings a caller passes: a date
\* in the format gives its midnight, anything else raises ValueError
strptime(s) ==
    IF s = "2024-01-08" THEN Some(At(2024, 1, 8, 0))
    ELSE IF s = "2024-01-15" THEN Some(At(2024, 1, 15, 0))
    ELSE None

\* the query parameters start_date and end_date of the requests
StartParams == {None, Some(""), Some("2024-01-08"), Some("15/01/2024")}
EndParams == {None, Some("2024-01-15"), Some("2024-01-08")}

\* Query("this_week"): the default of a request without the parameter
PeriodQuery(param) == IF param = None THEN "this_week" ELSE param[1]

HTTPException(status_code) == [status_code |-> status_code]

\* lines 71-113 of src/scoring/router.py: `not start_date` holds for a
\* missing parameter and for an empty one
leaderboard_dashboard(table, user_ids, period_param, start_date, end_date, now_) ==
    LET period == PeriodQuery(period_param)
        missing == start_date = None \/ start_date = Some("")
                     \/ end_date = None \/ end_date = Some("")
    IN IF period = "custom" /\ missing THEN HTTPException(400)
       ELSE IF period = "custom"
                /\ (strptime(start_date[1]) = None \/ strptime(end_date[1]) = None)
            THEN HTTPException(400)
       ELSE LET custom_start == IF period = "custom" THEN strptime(start_date[1]) ELSE None
                custom_end == IF period = "custom" THEN strptime(end_date[1]) ELSE None
                bounds == get_period_boundaries(period, custom_start, custom_end, now_)
            IN IF bounds.raised = "ValueError" THEN HTTPException(400)
               ELSE [status_code |-> 200,
                     period |-> period,
                     period_label |-> bounds.label,
                     period_start |-> bounds.start,
                     period_end |-> bounds.end,
                     leaderboard |-> get_range_leaderboard(table, user_ids,
                                                           bounds.start, bounds.end)]

Dashboard ==
    /\ \E period_param \in {None} \cup {Some(p) : p \in Periods},
          start_date \in StartParams, end_date \in EndParams,
          now_ \in {At(2024, 2, 29, 2), At(2025, 3, 2, 1)} :
         scoring' = [op |-> "dashboard", period |-> period_param,
                     start_date |-> start_date, end_date |-> end_date, now |-> now_,
                     response |-> leaderboard_dashboard(activities, users, period_param,
                                                        start_date, end_date, now_)]
    /\ UNCHANGED <<deauth, oauth, validation, http, tokens, users, remote, pending,
                   tasks, sync, budget>>
    /\ UNCHANGED <<varsLimiter, varsAdapter>>

\* GET /scoring/athlete/{athlete_id}/breakdown (router.py 295-348): a date
\* that does not parse is answered 400, an athlete that is not found 404
BreakdownDates == {None, Some("2024-01-08"), Some("15/01/2024")}

AthleteBreakdown ==
    /\ \E athlete_id \in AthleteIds, date \in BreakdownDates :
         IF date # None /\ strptime(date[1]) = None
         THEN scoring' = [op |-> "athlete_breakdown", athlete_id |-> athlete_id,
                          date |-> date, week_start |-> 0, week_end |-> 0,
                          response |-> [status_code |-> 400]]
         ELSE LET date_obj == IF date = None THEN WeekStart + Days(7) + 1
                              ELSE strptime(date[1])[1]
                  week == get_week_boundaries(date_obj)
              IN \E rows \in QueryOrders(BreakdownRuns(activities, athlete_id,
                                                       week.week_start, week.week_end)) :
                   LET breakdown == get_athlete_breakdown(activities, users, athlete_id,
                                                          date_obj, rows)
                   IN scoring' = [op |-> "athlete_breakdown", athlete_id |-> athlete_id,
                                  date |-> date,
                                  week_start |-> week.week_start,
                                  week_end |-> week.week_end,
                                  response |->
                                     IF breakdown.raised = "ValueError"
                                     THEN [status_code |-> 404]
                                     ELSE [status_code |-> 200, body |-> breakdown]]
    /\ UNCHANGED <<deauth, oauth, validation, http, tokens, users, remote, pending,
                   tasks, sync, budget>>
    /\ UNCHANGED <<varsLimiter, varsAdapter>>

NextScoring ==
    \/ BasePoints
    \/ ConsistencyBonus
    \/ WeekBoundaries

SpecScoring == InitStore /\ [][NextScoring]_vars

NextPeriods ==
    \/ PeriodBoundaries
    \/ Dashboard

SpecPeriods == InitStore /\ [][NextPeriods]_vars

(***************************************************************************)
(* The leaderboards over a store that fills with runs, while a second      *)
(* athlete may authorize.                                                  *)
(***************************************************************************)
NextLeaderboard ==
    \/ StoreRun
    \/ callback
    \/ WeeklyLeaderboard
    \/ RangeLeaderboard

SpecLeaderboard == InitStore /\ [][NextLeaderboard]_vars

\* the breakdowns over a store that fills with runs of an athlete with a
\* user row and of one without
NextBreakdown ==
    \/ StoreRun
    \/ AthleteBreakdown

SpecBreakdown == InitStore /\ [][NextBreakdown]_vars

(***************************************************************************)
(*                    Claims on the store adapter                          *)
(***************************************************************************)
LastCall == hist[Len(hist)]

\* the table with updated_at left out of every row
Strip(table) == [i \in 1..Len(table) |-> [table[i] EXCEPT !.updated_at = 0]]

AppliedTwice ==
    /\ Len(hist) = 2
    /\ hist[1].op = "create_activity"
    /\ hist[2].op = "create_activity"
    /\ hist[1].payload = hist[2].payload

\* C2: applying a payload through create_activity a second time leaves the
\* rows and their fields, updated_at aside, as the first application left them.
C2_UpsertIdempotent ==
    AppliedTwice => Strip(activities) = Strip(LastCall.before)

\* the first application inserted beside another row, the second one updated
\* at a later time
C2_Witness ==
    /\ AppliedTwice
    /\ ~hist[1].existed
    /\ hist[2].existed
    /\ Len(activities) = 2
    /\ activities # LastCall.before

\* C3 as stated: after an upsert that found a row, the row equals the payload
\* in classification, metrics, start time, local start time, timezone, social
\* counters and raw snapshot (all fields but the owner and created_at).
C3_UpdateOverwritesEveryField ==
    (Len(hist) >= 1 /\ LastCall.op = "create_activity" /\ LastCall.existed)
        => LET p == LastCall.payload
               r == Get(get_activity(activities, p.id))
           IN /\ r.name = p.name
              /\ r.type = p.type
              /\ r.sport_type = p.sport_type
              /\ r.workout_type = p.workout_type
              /\ r.distance = p.distance
              /\ r.moving_time = p.moving_time
              /\ r.elapsed_time = p.elapsed_time
              /\ r.total_elevation_gain = p.total_elevation_gain
              /\ r.average_speed = p.average_speed
              /\ r.max_speed = p.max_speed
              /\ r.start_date = p.start_date
              /\ r.start_date_local = p.start_date_local
              /\ r.timezone = p.timezone
              /\ r.kudos_count = OrDefault(p.kudos_count, 0)
              /\ r.comment_count = OrDefault(p.comment_count, 0)
              /\ r.athlete_count = OrDefault(p.athlete_count, 1)
              /\ r.raw_data = p

(***************************************************************************)
(*              Claims on webhook processing and backfill                  *)
(***************************************************************************)
Quiet(t) == tasks[t].pc \in {"free", "done"}
Stored(id) == RowsWithId(activities, id) # {}

\* the task fetched the remote record and went on to the store
ReachedStore(t) ==
    tasks[t].result \in {"created", "updated", "IntegrityError", "StaleDataError"}

\* C1: whatever the interleaving of webhook tasks and the backfill run, the
\* table holds at most one row per activity id.
C1_OneRowPerId ==
    \A id \in ActivityIds : Cardinality(RowsWithId(activities, id)) <= 1

\* two writers found the id absent; the second INSERT was refused and the row
\* of the first is the only one
C1_Witness ==
    \E t \in TaskIds :
        /\ tasks[t].result = "IntegrityError"
        /\ Cardinality(RowsWithId(activities, tasks[t].event.object_id)) = 1

\* C4 as stated: when the same (activity, create) event has been processed
\* twice, one after the other or interleaved, there is exactly one row for
\* its id, and the second application updated the row the first one created.
C4_ReplayUpdatesExistingRow ==
    \A t1, t2 \in TaskIds :
        (/\ t1 # t2
         /\ tasks[t1].pc = "done" /\ tasks[t2].pc = "done"
         /\ tasks[t1].event = tasks[t2].event
         /\ tasks[t1].event.aspect_type = "create"
         /\ ReachedStore(t1) /\ ReachedStore(t2)
         /\ sync.pc = "idle")
        => /\ Cardinality(RowsWithId(activities, tasks[t1].event.object_id)) = 1
           /\ {tasks[t1].result, tasks[t2].result} = {"created", "updated"}

\* the columns of a row that come from a payload (all but the timestamps)
SameRecord(row, activity_data) ==
    [row EXCEPT !.created_at = 0, !.updated_at = 0] = NewActivity(activity_data, 0)

\* C5 as stated: once every delivered event has been processed (no fetch
\* having failed), an activity has a row if and only if the remote still has
\* its record, and the row equals that record.
C5_StoreMatchesRemote ==
    (/\ pending = {}
     /\ \A t \in TaskIds : Quiet(t)
     /\ budget.faults = 0
     /\ sync.pc = "idle")
    => \A id \in ActivityIds :
          /\ Stored(id) <=> Live(id)
          /\ Live(id) => SameRecord(Get(get_activity(activities, id)), RemoteRecord(id))

(***************************************************************************)
(*                        Claims on the backfill run                       *)
(***************************************************************************)
PageErrors(errors) == {i \in 1..Len(errors) : errors[i].kind = "page"}
ItemErrors(errors) == {i \in 1..Len(errors) : errors[i].kind = "activity"}

\* the run ended because a page fetch failed
FetchFailed == sync.pc = "done" /\ PageErrors(sync.errors) # {}

\* C12: a run that has its client never raises to the caller; when a page
\* fetch fails the run ends with exactly one page error, appended last, and
\* returns the summary, whose created and updated counts add up to the rows
\* written on the pages before the failing one.
C12_FetchFailureReturnsSummary ==
    /\ sync.pc = "raised" => sync.athlete_id \notin users /\ sync.fetched_pages = 0
    /\ FetchFailed =>
         /\ IsSome(sync.result)
         /\ PageErrors(sync.errors) = {Len(sync.errors)}
         /\ Get(sync.result).errors = sync.errors
         /\ sync.errors[Len(sync.errors)].ref = sync.fetched_pages + 1
         /\ Get(sync.result).synced_count + Get(sync.result).updated_count
               = sync.written
         /\ Get(sync.result).total_processed = sync.written

\* the fetch of page 2 failed after rows of page 1 had been written
C12_Witness ==
    /\ FetchFailed
    /\ sync.fetched_pages = 1
    /\ sync.written >= 1
    /\ Get(sync.result).total_processed >= 1

\* C13 as stated: a failure while storing one item is isolated; the items
\* after it, on the same page and on later pages, are still processed, so an
\* item is recorded as failed only for a failure of its own store operation.
C13_ItemFailureIsolated ==
    \A i \in ItemErrors(sync.errors) :
        sync.errors[i].exc \in {"IntegrityError", "StaleDataError"}

\* C14: the summary is an exact account of the run: pages_processed is the
\* number of non-empty pages fetched and applied, total_processed is created
\* plus updated, and every item of those pages is counted exactly once, as
\* created, as updated, or by one error message.
C14_SummaryAccountsForRun ==
    sync.pc = "done" =>
        LET res == Get(sync.result) IN
        /\ res.pages_processed = sync.fetched_pages
        /\ res.total_processed = res.synced_count + res.updated_count
        /\ res.synced_count + res.updated_count + Cardinality(ItemErrors(res.errors))
              = sync.fetched_items
        /\ Cardinality(PageErrors(res.errors)) <= 1

\* one page of two items, then an empty page: pages_processed = 1 and
\* total_processed = 2, no errors
C14_Witness ==
    /\ sync.pc = "done"
    /\ sync.fetched_pages = 1
    /\ sync.fetched_items = 2
    /\ Get(sync.result).pages_processed = 1
    /\ Get(sync.result).total_processed = 2
    /\ Get(sync.result).errors = <<>>

\* C15: the run leaves the page loop exactly at a fetch, on an empty page or
\* on a failed fetch, and goes on to the next page after a non-empty one
\* whatever the page number; hence, the remote answering with an empty page
\* after finitely many non-empty ones, a started run ends and returns its
\* summary.
C15_StopsOnEmptyPageOrFailure ==
    /\ [][ /\ (sync.pc # "done" /\ sync'.pc = "done")
              => /\ sync.pc = "fetch_page"
                 /\ IsSome(sync'.result)
                 /\ sync'.fetched_pages = sync.fetched_pages
                 /\ \/ sync'.errors = sync.errors
                    \/ PageErrors(sync'.errors) = {Len(sync'.errors)}
           /\ (sync.pc = "fetch_page" /\ sync'.fetched_pages # sync.fetched_pages)
              => sync'.pc = "item_lookup" /\ sync'.page = sync.page
           /\ sync'.page # sync.page
              => sync'.page = sync.page + 1 /\ sync'.pc = "fetch_page"
         ]_vars
    /\ (sync.pc = "fetch_page") ~> (sync.pc = "done" /\ IsSome(sync.result))

\* the run went through every non-empty page the remote had and ended on the
\* empty page after them
C15_Witness ==
    /\ sync.pc = "done"
    /\ sync.fetched_pages = MaxPages
    /\ sync.page = MaxPages + 1
    /\ PageErrors(sync.errors) = {}

(***************************************************************************)
(*                  Claims on the processing of one event                  *)
(***************************************************************************)
\* task t completes its store write in this step, with the given result
Completes(t, results) ==
    /\ tasks[t].pc \in {"insert", "update", "delete_lookup", "delete"}
    /\ tasks'[t].pc = "done"
    /\ tasks'[t].result \in results

\* C16 as stated: when a create or update event has been processed
\* successfully, the table holds exactly one row for its object_id and the
\* row's content is the record the task fetched, whether the row existed
\* before or not.
C16_EventStoresFetchedRecord ==
    [][\A t \in TaskIds :
          Completes(t, {"created", "updated"})
          => LET id == tasks[t].event.object_id IN
             /\ Cardinality(RowsWithId(activities', id)) = 1
             /\ SameRecord(Get(get_activity(activities', id)), Get(tasks[t].data))
      ]_vars

DeleteTask(t) == tasks[t].event.aspect_type = "delete"

\* C17: a delete event makes no remote call and raises nothing; it reports
\* False and leaves the table as it is when the look-up finds no row, and
\* otherwise removes the row of its object_id, and no other, and reports
\* True; afterwards the table has no row with that id.
C17_DeleteRemovesOrReportsAbsent ==
    /\ [](\A t \in TaskIds :
            DeleteTask(t)
            => /\ tasks[t].pc \in {"delete_lookup", "delete", "done"}
               /\ tasks[t].data = None
               /\ tasks[t].result \in {"none", "absent", "deleted"})
    /\ [][\A t \in TaskIds :
            /\ (DeleteTask(t) /\ Completes(t, {"absent"}))
               => /\ ~Stored(tasks[t].event.object_id)
                  /\ activities' = activities
            /\ (DeleteTask(t) /\ Completes(t, {"deleted"}))
               => /\ activities' = Without(activities, tasks[t].event.object_id)
                  /\ RowsWithId(activities', tasks[t].event.object_id) = {}
            /\ (DeleteTask(t) /\ tasks[t].pc = "delete_lookup"
                  /\ Stored(tasks[t].event.object_id))
               => tasks'[t].pc \in {"delete_lookup", "delete"}
         ]_vars

\* the delete event of a stored activity was delivered twice: one task
\* removed the row, the other found none
C17_Witness ==
    \E t, u \in TaskIds :
        /\ DeleteTask(t) /\ tasks[t].result = "deleted"
        /\ DeleteTask(u) /\ tasks[u].result = "absent"
        /\ tasks[t].event = tasks[u].event
        /\ ~Stored(tasks[t].event.object_id)

\* task t was queued in this step
Queued(t) ==
    /\ tasks[t].pc \in {"free", "done"}
    /\ tasks'[t].pc \in {"client", "delete_lookup", "athlete"}
    /\ tasks'[t].data = None
    /\ tasks'[t].result = "none"

\* task t does a step of its processing
Works(t) == tasks[t].pc \notin {"free", "done"} /\ tasks'[t] # tasks[t]

ErrorResults ==
    {"ValueError", "ObjectNotFound", "StravaException", "IntegrityError",
     "StaleDataError"}

\* C19: a task whose processing raises, at client construction, at the fetch
\* or at the store write, leaves the activities and the users as they were:
\* the only step of a task that changes them is the one that completes a
\* write; the exception is recorded as the task's result and the task ends
\* normally.  (A token refreshed while the client was built stays committed.)
C19_FailedEventLeavesStore ==
    /\ [](\A t \in TaskIds :
            tasks[t].pc = "done"
            => tasks[t].result \in
                 ErrorResults \cup {"created", "updated", "deleted", "absent", "logged"})
    /\ [][\A t \in TaskIds :
            /\ (Works(t) /\ tasks'[t].result \in ErrorResults)
               => /\ tasks'[t].pc = "done"
                  /\ activities' = activities
                  /\ users' = users
            /\ (Works(t) /\ activities' # activities)
               => Completes(t, {"created", "updated", "deleted"})
         ]_vars

\* one task failed at its store write (the INSERT was refused) and one at
\* its fetch; the table holds what the other tasks wrote
C19_Witness ==
    \E t, u \in TaskIds :
        /\ tasks[t].pc = "done" /\ tasks[t].result = "IntegrityError"
        /\ tasks[u].pc = "done" /\ tasks[u].result = "created"
        /\ Len(activities) = 1

(***************************************************************************)
(*                         Claims on athlete events                        *)
(***************************************************************************)
AthleteTask(t) == tasks[t].event.object_type = "athlete"

\* C21: the processing of an athlete event, whatever its aspect, leaves
\* every stored activity and every user record (row and token) as it was and
\* sends no request to the remote API.
C21_AthleteEventChangesNothing ==
    [][\A t \in TaskIds :
         (tasks[t].pc = "athlete" /\ tasks'[t] # tasks[t])
            => /\ activities' = activities
               /\ users' = users
               /\ tokens' = tokens
               /\ remote' = remote
               /\ tasks'[t].pc = "done"
               /\ tasks'[t].calls = 0]_vars

\* an athlete event of aspect delete was processed while an activity was
\* stored, and another task has called the remote API
C21_Witness ==
    \E t, u \in TaskIds :
        /\ tasks[t].pc = "done"
        /\ AthleteTask(t)
        /\ tasks[t].event.aspect_type = "delete"
        /\ tasks[t].result = "logged"
        /\ tasks[u].calls > 0
        /\ Len(activities) > 0

(***************************************************************************)
(*                        Claims on storage sessions                       *)
(***************************************************************************)
\* the units at work and the session each one holds: webhook tasks, the
\* backfill run, and the callback request until get_session has closed
SessionsInUse ==
    {<<"task", t, tasks[t].db>> : t \in {u \in TaskIds : ~Quiet(u)}}
    \cup (IF sync.pc \notin {"idle", "done", "raised"}
          THEN {<<"backfill", 0, sync.db>>} ELSE {})
    \cup (IF oauth.pc = "responded"
          THEN {<<"request", 0, oauth.db>>} ELSE {})

\* C22: no two units at work at the same time (webhook tasks, the backfill
\* run, an HTTP request) hold the same storage session; this covers the
\* backfill scheduled by the OAuth callback.
C22_NoSessionShared ==
    \A x, y \in SessionsInUse : x # y => x[3] # y[3]

(***************************************************************************)
(*                        Claims on deauthorization                        *)
(***************************************************************************)
\* C23: a successful deauthorization leaves no activity of the athlete and
\* no user row; a failed local deletion leaves both tables as they were; a
\* failed revoke call does not stop the local deletion.
C23_DeauthorizeRemovesAthlete ==
    [][/\ (deauth.pc # "done" /\ deauth'.pc = "done" /\ deauth'.result = "deleted")
          => /\ IdsOfAthlete(activities', deauth.athlete_id) = {}
             /\ deauth.athlete_id \notin users'
       /\ (deauth.pc # "done" /\ deauth'.pc = "done" /\ deauth'.result = "raised")
          => activities' = activities /\ users' = users
       /\ (deauth.pc = "revoke" /\ deauth'.pc # "revoke")
          => deauth'.pc = "delete_activities"]_vars

(***************************************************************************)
(*                       Claims on the scoring engine                      *)
(***************************************************************************)
Called(op) == scoring.op = op

\* C24: base points are a non-negative integer, the nearest integer to
\* s / 60 with a tie (s mod 60 = 30) going to the even neighbour; 60k seconds
\* give k points; a longer moving time never gives fewer points.
C24_BasePointsRounded ==
    [][scoring'.op = "base_points" =>
         LET s == scoring'.moving_time_seconds
             p == scoring'.points
             off == IF 60 * p >= s THEN 60 * p - s ELSE s - 60 * p
         IN /\ p \in Nat
            /\ off <= 30
            /\ off = 30 => p % 2 = 0
            /\ s % 60 = 0 => p = s \div 60
            /\ (scoring.op = "base_points" /\ scoring.moving_time_seconds <= s)
                  => scoring.points <= p]_vars

\* 150 s is two minutes and a half: the tie goes down to the even 2
C24_Witness ==
    /\ Called("base_points")
    /\ scoring.moving_time_seconds = 150
    /\ scoring.points = 2

\* C25: the consistency bonus is the one the function documents: 0 for 0 to
\* 2 active days, 150 for 3, 350 for 4, 400 for 5 and for 6 or more.
C25_DocumentedBonusStructure ==
    Called("consistency_bonus") => scoring.bonus = DocumentedBonus(scoring.days_active)

\* C26: the consistency bonus never decreases when days_active grows, and
\* is the same for every input of 6 or more.
C26_BonusMonotoneAndCapped ==
    [][(scoring.op = "consistency_bonus" /\ scoring'.op = "consistency_bonus") =>
         /\ scoring.days_active <= scoring'.days_active
               => scoring.bonus <= scoring'.bonus
         /\ (scoring.days_active >= 6 /\ scoring'.days_active >= 6)
               => scoring.bonus = scoring'.bonus]_vars

\* the bonus of 8 active days was computed: that of 6
C26_Witness ==
    /\ Called("consistency_bonus")
    /\ scoring.days_active = 8
    /\ scoring.bonus = 400

\* C27: for an instant d of any weekday, the week returned starts on a
\* Monday at 00:00, ends 7 days later and contains d: start <= d < end.
C27_WeekIsMondayToMonday ==
    Called("week_boundaries") =>
        LET week_start == scoring.result.week_start
            week_end == scoring.result.week_end
        IN /\ weekday(week_start) = 0
           /\ week_start % TicksPerDay = 0
           /\ week_end = week_start + 7 * TicksPerDay
           /\ week_start <= scoring.date
           /\ scoring.date < week_end

\* the week of a Sunday afternoon (2024-01-14) starts six days before it
C27_Witness ==
    /\ Called("week_boundaries")
    /\ scoring.date = At(2024, 1, 14, 3)
    /\ scoring.result.week_start = At(2024, 1, 8, 0)
    /\ scoring.result.week_end = At(2024, 1, 15, 0)

(***************************************************************************)
(*                        Claims on the leaderboards                       *)
(***************************************************************************)
\* the stored runs of an athlete that fall in the scope of a call
ScopeRuns(board, athlete_id) ==
    {r \in Rows(activities) :
        /\ r.athlete_id = athlete_id
        /\ r.type = "Run"
        /\ board.start_date <= r.start_date_local
        /\ r.start_date_local < board.end_date}

\* the stored runs of an athlete in the week of a breakdown
ScopeRunsOf(board, athlete_id) ==
    {r \in Rows(activities) :
        /\ r.athlete_id = athlete_id
        /\ r.type = "Run"
        /\ board.week_start <= r.start_date_local
        /\ r.start_date_local < board.week_end}

\* the step is a call of the given leaderboard
Computes(op) == scoring' # scoring /\ scoring'.op = op

\* C28: an entry of the range leaderboard belongs to an athlete with at
\* least one stored Run whose local start is in [start, end), its figures
\* count those runs only, its total is positive, and the entries come in
\* non-increasing order of total points.
C28_LeaderboardScopeAndOrder ==
    [][Computes("range_leaderboard") =>
        LET lb == scoring'.entries IN
        /\ \A i \in DOMAIN lb :
              LET runs == ScopeRuns(scoring', lb[i].athlete_id) IN
              /\ runs # {}
              /\ lb[i].total_time.num = SumOf([r \in runs |-> r.moving_time], runs)
              /\ lb[i].race_count <= Cardinality(runs)
              /\ lb[i].days_active <= Cardinality(runs)
              /\ lb[i].total_points > 0
        /\ \A i, j \in DOMAIN lb : i < j => lb[i].total_points >= lb[j].total_points
        /\ \A i, j \in DOMAIN lb : i # j => lb[i].athlete_id # lb[j].athlete_id]_vars

\* two athletes are listed, the one with more points first, while the store
\* also holds a run that starts exactly at the end of the range
C28_Witness ==
    /\ Called("range_leaderboard")
    /\ Len(scoring.entries) = 2
    /\ scoring.entries[1].total_points > scoring.entries[2].total_points
    /\ \E r \in Rows(activities) :
          r.type = "Run" /\ r.start_date_local = scoring.end_date

\* C29: the total of every entry is the sum of the base points of the
\* athlete's runs, plus the consistency bonus of the number of distinct
\* local days with a run, plus 250 for each run of workout type race.
C29_TotalIsBasePlusBonuses ==
    [][Computes("weekly_leaderboard") =>
        \A i \in DOMAIN scoring'.entries :
            LET e == scoring'.entries[i]
                runs == ScopeRuns(scoring', e.athlete_id)
                days == {r.start_date_local \div TicksPerDay : r \in runs}
                races == {r \in runs : r.workout_type = <<1>>}
            IN /\ e.base_points =
                     SumOf([r \in runs |-> calculate_base_points(r.moving_time)], runs)
               /\ e.total_points =
                     e.base_points + calculate_consistency_bonus(Cardinality(days))
                        + 250 * Cardinality(races)
               /\ e.race_bonus = 250 * Cardinality(races)
               \* two plain runs of 1800 s and 2400 s on two days
               /\ ( /\ Cardinality(runs) = 2
                    /\ {r.moving_time : r \in runs} = {1800, 2400}
                    /\ Cardinality(days) = 2
                    /\ races = {} )
                    => /\ e.base_points = 70
                       /\ e.consistency_bonus = 0
                       /\ e.total_points = 70
               \* and a race of 3600 s on a third day
               /\ ( /\ Cardinality(runs) = 3
                    /\ {r.moving_time : r \in runs} = {1800, 2400, 3600}
                    /\ Cardinality(days) = 3
                    /\ {r.moving_time : r \in races} = {3600} )
                    => /\ e.base_points = 130
                       /\ e.race_bonus = 250
                       /\ e.consistency_bonus \in {150, 300}
                       /\ e.total_points = 130 + e.consistency_bonus + 250]_vars

\* runs of 1800 s and 2400 s on two days and a race of 3600 s on a third:
\* base 130, race bonus 250, three active days
C29_Witness ==
    /\ Called("weekly_leaderboard")
    /\ \E i \in DOMAIN scoring.entries :
          /\ scoring.entries[i].base_points = 130
          /\ scoring.entries[i].race_bonus = 250
          /\ scoring.entries[i].days_active = 3
          /\ scoring.entries[i].total_points
                = 130 + calculate_consistency_bonus(3) + 250

\* the period kinds of get_period_boundaries
PeriodKinds ==
    {"this_week", "last_week", "this_month", "last_month", "this_year", "last_year",
     "custom"}

\* C30: get_period_boundaries raises a caller error and returns no
\* boundaries when the period is none of the seven kinds, or is custom with
\* either bound missing; the dashboard answers such a request with 400 and
\* computes no leaderboard.
C30_BadPeriodIsCallerError ==
    /\ (Called("period_boundaries")
          /\ (scoring.period \notin PeriodKinds
                \/ (scoring.period = "custom"
                      /\ (scoring.custom_start = None \/ scoring.custom_end = None))))
        => /\ scoring.result.raised = "ValueError"
           /\ DOMAIN scoring.result = {"raised", "message"}
    /\ (Called("dashboard")
          /\ (PeriodQuery(scoring.period) \notin PeriodKinds
                \/ (PeriodQuery(scoring.period) = "custom"
                      /\ (scoring.start_date = None \/ scoring.end_date = None))))
        => /\ scoring.response.status_code = 400
           /\ DOMAIN scoring.response = {"status_code"}

\* a custom period with its end missing, refused
C30_Witness ==
    /\ Called("period_boundaries")
    /\ scoring.period = "custom"
    /\ scoring.custom_start # None
    /\ scoring.custom_end = None
    /\ scoring.result.raised = "ValueError"

(***************************************************************************)
(*                 Claims on concurrent use of a limiter                   *)
(***************************************************************************)
\* the four values of one response's quota headers, None when a header is
\* missing or does not parse
FourValues(headers) ==
    IF /\ USAGE_NAME \in DOMAIN headers
       /\ LIMIT_NAME \in DOMAIN headers
       /\ Len(headers[USAGE_NAME]) >= 2
       /\ Len(headers[LIMIT_NAME]) >= 2
       /\ \A i \in DOMAIN headers[USAGE_NAME] : headers[USAGE_NAME][i].ok
       /\ \A i \in DOMAIN headers[LIMIT_NAME] : headers[LIMIT_NAME][i].ok
    THEN Some([short_usage |-> headers[USAGE_NAME][1].val,
               long_usage |-> headers[USAGE_NAME][2].val,
               short_limit |-> headers[LIMIT_NAME][1].val,
               long_limit |-> headers[LIMIT_NAME][2].val])
    ELSE None

\* caller c passes its response to update_limits in this step
Updates(c) == callers[c].pc = "responded" /\ callers'[c].pc # "responded"

\* C35: with concurrent callers on one limiter, every change of the
\* snapshot installs the four values of one single response, and a response
\* whose quota headers are missing or do not parse leaves the snapshot as it
\* was; the snapshot a caller's wait_if_needed decides on is one such value.
C35_SnapshotFromOneResponse ==
    [][/\ current_limits' # current_limits =>
            \E c \in CallerIds :
                /\ Updates(c)
                /\ current_limits' = FourValues(callers[c].response.headers)
                /\ IsSome(current_limits')
       /\ \A c \in CallerIds :
            (Updates(c) /\ IsNone(FourValues(callers[c].response.headers)))
                => current_limits' = current_limits
       /\ \A c \in CallerIds :
            (callers[c].pc = "classified" /\ callers'[c].pc = "waited")
                => callers'[c].sleeps = wait_if_needed(current_limits, priority)]_vars

\* a caller's response that does not parse arrives while the snapshot holds
\* the values of the other caller's response, and leaves them in place
C35_Witness ==
    \E c, d \in CallerIds :
        /\ c # d
        /\ callers[c].pc = "done"
        /\ callers[c].outcome = "ValueError"
        /\ callers[d].pc \in {"updated", "classified", "waited"}
        /\ IsSome(current_limits)
        /\ current_limits = FourValues(callers[d].response.headers)
        /\ callers[c].before = current_limits

(***************************************************************************)
(*                   Claims on the priority of the calls                   *)
(***************************************************************************)
\* the snapshots a limiter may hold
Snapshots ==
    {None} \cup {Some(RateLimitInfo(su, lu, sl, ll)) :
                    su \in ShortUsages, lu \in LongUsages,
                    sl \in ShortLimits, ll \in LongLimits}

Exhausted(limits) ==
    limits.long_usage >= limits.long_limit \/ limits.short_usage >= limits.short_limit

\* a limiter of high priority sleeps only on an exhausted window, then once
HighSleepsOnlyWhenExhausted ==
    \A cur \in Snapshots :
        LET sleeps == wait_if_needed(cur, "high") IN
        /\ sleeps # <<>> => IsSome(cur) /\ Exhausted(Get(cur)) /\ Len(sleeps) = 1
        /\ (IsSome(cur) /\ ~Exhausted(Get(cur))) => sleeps = <<>>

\* C34 as stated: every remote call of a backfill run goes through a limiter
\* of low priority and every remote call of a webhook task through one of
\* high priority.
C34_EveryRemoteCallLimited ==
    /\ \A i \in DOMAIN sync.remote_calls : sync.remote_calls[i].limiter = "low"
    /\ \A t \in TaskIds : \A i \in DOMAIN tasks[t].remote_calls :
          tasks[t].remote_calls[i].limiter = "high"
    /\ HighSleepsOnlyWhenExhausted

\* C34, amended: every call a backfill run makes through its client goes
\* through a limiter of low priority, every call a webhook task makes
\* through its client through one of high priority, which paces nothing and
\* sleeps only on an exhausted window; the token refresh that may come
\* before goes through no limiter.
C34_ClientCallsLimited ==
    /\ \A i \in DOMAIN sync.remote_calls :
          sync.remote_calls[i].limiter =
              IF sync.remote_calls[i].request = "get_activities" THEN "low" ELSE "none"
    /\ \A t \in TaskIds : \A i \in DOMAIN tasks[t].remote_calls :
          tasks[t].remote_calls[i].limiter =
              IF tasks[t].remote_calls[i].request = "get_activity" THEN "high" ELSE "none"
    /\ \A t \in TaskIds : Len(tasks[t].remote_calls) = tasks[t].calls
    /\ HighSleepsOnlyWhenExhausted

\* a webhook fetch after a token refresh while the backfill fetches pages
C34_Witness ==
    /\ \E t \in TaskIds :
          tasks[t].remote_calls = <<RemoteCall("refresh_access_token", "none"),
                                    RemoteCall("get_activity", "high")>>
    /\ Len(sync.remote_calls) >= 2
    /\ sync.remote_calls[Len(sync.remote_calls)] = RemoteCall("get_activities", "low")

(***************************************************************************)
(*                    Claims on the pages of a backfill                    *)
(***************************************************************************)
\* C33: a run requests the pages 1, 2, 3, ... in this order, each with
\* per_page = 200 (get_activities sends no per_page above 200, whatever it
\* is given), and requests a page only when every item of the pages before
\* has been written or recorded as an error.
C33_PagesInOrder ==
    [][sync'.requests # sync.requests =>
        /\ Len(sync'.requests) = Len(sync.requests) + 1
        /\ \A n \in DOMAIN sync'.requests :
              sync'.requests[n] = [page |-> n, per_page |-> 200]
        /\ sync.activities = <<>>
        /\ sync.fetched_pages = Len(sync.requests)
        /\ sync.fetched_items = sync.written + Cardinality(ItemErrors(sync.errors))
        /\ \A per_page \in {1, 30, 200, 201, 1000} :
              get_activities_params(1, per_page).per_page <= 200]_vars

\* the third page asked for after two pages of two items each
C33_Witness ==
    /\ Len(sync.requests) = 3
    /\ sync.fetched_items = 4
    /\ sync.written + Cardinality(ItemErrors(sync.errors)) = 4

(***************************************************************************)
(*                      Claims on the audit columns                        *)
(***************************************************************************)
Written == hist' # hist /\ hist'[Len(hist')].op \in {"create_activity", "update_activity"}

\* C32: an update of a stored activity changes neither its athlete_id nor
\* its created_at; an insert sets created_at and updated_at, an update sets
\* updated_at, to the time of the write; no other row changes.
C32_OwnerAndCreatedAtKept ==
    [][Written =>
        LET id == hist'[Len(hist')].payload.id
            before == get_activity(activities, id)
            after == get_activity(activities', id)
        IN /\ IsSome(after)
           /\ Get(after).updated_at = now
           /\ IF IsSome(before)
              THEN /\ Get(after).athlete_id = Get(before).athlete_id
                   /\ Get(after).created_at = Get(before).created_at
              ELSE Get(after).created_at = now
           /\ \A i \in DOMAIN activities :
                 activities[i].id # id => activities'[i] = activities[i]]_vars

\* an activity updated, after its creation, with a payload of another athlete
C32_Witness ==
    /\ hist # <<>>
    /\ LastCall.op = "update_activity"
    /\ \E i \in DOMAIN activities :
          /\ activities[i].id = LastCall.payload.id
          /\ activities[i].athlete_id # LastCall.payload.athlete
          /\ activities[i].created_at < activities[i].updated_at

(***************************************************************************)
(*                    Claims on the athlete breakdown                      *)
(***************************************************************************)
\* C31: the breakdown is answered not-found exactly when the athlete has no
\* user row, whatever activities are stored for the id; a known athlete
\* without runs in the week gets an empty activity list and zero totals.
C31_NotFoundOnlyForUnknownAthlete ==
    [][(Computes("athlete_breakdown") /\ scoring'.response.status_code # 400) =>
        LET response == scoring'.response
            runs == ScopeRunsOf(scoring', scoring'.athlete_id)
        IN /\ response.status_code = 404 <=> scoring'.athlete_id \notin users
           /\ response.status_code \in {200, 404}
           /\ (scoring'.athlete_id \in users /\ runs = {})
                => /\ response.status_code = 200
                   /\ response.body.daily_activities = <<>>
                   /\ response.body.base_points = 0
                   /\ response.body.consistency_bonus = 0
                   /\ response.body.race_bonus = 0
                   /\ response.body.total_points = 0
                   /\ response.body.days_active = 0]_vars

\* not found for an athlete without a user row whose runs are stored
C31_Witness ==
    /\ Called("athlete_breakdown")
    /\ scoring.response.status_code = 404
    /\ scoring.athlete_id \notin users
    /\ \E r \in Rows(activities) :
          /\ r.athlete_id = scoring.athlete_id
          /\ r.type = "Run"
          /\ scoring.week_start <= r.start_date_local
          /\ r.start_date_local < scoring.week_end

\* the entries of an athlete in a leaderboard
EntriesOf(board, athlete_id) ==
    {board[i] : i \in {j \in DOMAIN board : board[j].athlete_id = athlete_id}}

\* the score of an entry or of a breakdown
Score(e) ==
    [base_points |-> e.base_points, consistency_bonus |-> e.consistency_bonus,
     race_bonus |-> e.race_bonus, days_active |-> e.days_active,
     total_points |-> e.total_points]

PacingReached ==
    /\ IsSome(current_limits)
    /\ Get(current_limits).long_usage < Get(current_limits).long_limit
    /\ Get(current_limits).short_usage < Get(current_limits).short_limit
    /\ priority \in {"medium", "low"}

\* the divisor of the pacing branch: the quota left in the short window for
\* medium, in the long window for low
PacingRemaining ==
    IF priority = "medium"
    THEN Get(current_limits).short_limit - Get(current_limits).short_usage
    ELSE Get(current_limits).long_limit - Get(current_limits).long_usage

\* C40: one invocation of wait_if_needed sleeps at most once, at most 60 s;
\* it does not sleep while the limiter has no snapshot; when the pacing
\* branch is reached the quota left is positive and the one sleep is the
\* window divided by it, or the cap.
C40_OneBoundedSleep ==
    call.pc = "waited" =>
        /\ Len(call.sleeps) <= 1
        /\ \A i \in DOMAIN call.sleeps :
              /\ call.sleeps[i].den > 0
              /\ call.sleeps[i].num > 0
              /\ RatLeq(call.sleeps[i], Rat(60, 1))
        /\ IsNone(current_limits) => call.sleeps = <<>>
        /\ PacingReached =>
              /\ PacingRemaining > 0
              /\ Len(call.sleeps) = 1
              /\ call.sleeps[1].den \in {1, PacingRemaining}

\* a low-priority call paced by the quota left in the long window
C40_Witness ==
    /\ call.pc = "waited"
    /\ priority = "low"
    /\ PacingReached
    /\ call.sleeps = <<Rat(LONG_WINDOW_SECONDS, PacingRemaining)>>

(***************************************************************************)
(*                  Claims on the bounds of a period                       *)
(***************************************************************************)
\* C39: every period that get_period_boundaries returns, and every period
\* the dashboard answers with, starts before it ends; this includes the
\* custom period of any two dates the dashboard accepts.
C39_PeriodNonEmpty ==
    /\ (Called("period_boundaries") /\ scoring.result.raised = "none")
          => scoring.result.start < scoring.result.end
    /\ (Called("dashboard") /\ scoring.response.status_code = 200)
          => scoring.response.period_start < scoring.response.period_end

(***************************************************************************)
(*                   Claims on the frame of a backfill                     *)
(***************************************************************************)
\* the item the run is working on: the head of what is left of the page it
\* received last
CurrentItem == Head(sync.activities).id

\* C38: a step of a backfill run deletes no row; the only row it writes or
\* changes is the one of the item it is working on, an item of a page that
\* was fetched successfully, so a row whose id is in no such page stays as
\* it is; the step on which a page fetch fails writes nothing and ends the
\* run, so no item of that page is written.
C38_BackfillFrame ==
    [][sync' # sync =>
         /\ \A i \in DOMAIN activities :
               /\ IsSome(get_activity(activities', activities[i].id))
               /\ get_activity(activities', activities[i].id)
                       # get_activity(activities, activities[i].id)
                     => /\ sync.activities # <<>>
                        /\ sync.fetched_pages > 0
                        /\ activities[i].id = CurrentItem
         /\ \A j \in DOMAIN activities' :
               IsNone(get_activity(activities, activities'[j].id))
                 => /\ sync.activities # <<>>
                    /\ sync.fetched_pages > 0
                    /\ activities'[j].id = CurrentItem
         /\ PageErrors(sync'.errors) # PageErrors(sync.errors)
               => /\ activities' = activities
                  /\ sync'.written = sync.written
                  /\ sync'.fetched_items = sync.fetched_items
                  /\ sync'.activities = <<>>
                  /\ sync'.pc = "done"]_vars

\* a run that received one item in all and wrote it, beside a stored row
\* that was in none of its pages, and whose next page fetch failed
C38_Witness ==
    /\ sync.pc = "done"
    /\ sync.fetched_items = 1
    /\ sync.written = 1
    /\ Len(activities) = 2
    /\ PageErrors(sync.errors) # {}

(***************************************************************************)
(*                   Claims on the owner of an activity                    *)
(***************************************************************************)
\* C37: every stored activity is owned by an athlete that has a user row,
\* also while a deauthorization and webhook tasks of the athlete interleave.
C37_EveryActivityOwned ==
    \A i \in DOMAIN activities : activities[i].athlete_id \in users

(***************************************************************************)
(*                  Claims on the subscription validation                  *)
(***************************************************************************)
Validated == validation.response.status_code # 0

\* C20: the challenge is echoed, unchanged and with status 200, exactly when
\* hub.verify_token equals the configured token and hub.mode is "subscribe";
\* a wrong token gets 403 and no challenge whatever the mode; the right token
\* with another mode gets 400 and no challenge.
C20_ChallengeEchoedOnlyWhenVerified ==
    Validated =>
        LET token_ok == validation.hub_verify_token = STRAVA_VERIFY_TOKEN
            mode_ok == validation.hub_mode = "subscribe"
            res == validation.response
        IN /\ (token_ok /\ mode_ok)
                => res.status_code = 200 /\ res.hub_challenge = Some(validation.hub_challenge)
           /\ ~token_ok => res.status_code = 403 /\ res.hub_challenge = None
           /\ (token_ok /\ ~mode_ok) => res.status_code = 400 /\ res.hub_challenge = None
           /\ IsSome(res.hub_challenge) => token_ok /\ mode_ok

\* a request with a wrong token and a mode other than subscribe was answered
\* 403
C20_Witness ==
    /\ Validated
    /\ validation.hub_verify_token # STRAVA_VERIFY_TOKEN
    /\ validation.hub_mode # "subscribe"
    /\ validation.response.status_code = 403

(***************************************************************************)
(*                 Claims on the rate limiter and the client               *)
(***************************************************************************)
\* the call has passed wait_if_needed; the snapshot it read is current_limits
Waited == call.pc = "waited" /\ IsSome(current_limits)

\* the call has passed update_limits (current_limits is not written again
\* before the call ends)
AfterUpdate == Len(call.steps) >= 2
UpdateRaised == call.pc = "done" /\ Len(call.steps) = 2
HeaderMissing ==
    \/ USAGE_NAME \notin DOMAIN call.response.headers
    \/ LIMIT_NAME \notin DOMAIN call.response.headers
WellFormed(fields) ==
    /\ Len(fields) >= 2
    /\ \A i \in 1..Len(fields) : fields[i].ok

\* C6 as stated: with short usage equal to the short limit wait_if_needed
\* sleeps 30 s, for every priority and every long-window usage/limit pair.
C6_ShortExhausted_AnyLong ==
    (Waited /\ Get(current_limits).short_usage = Get(current_limits).short_limit)
        => call.sleeps = <<Rat(30, 1)>>

\* C6 amended: with short usage equal to the short limit and the long window
\* not exhausted, wait_if_needed sleeps exactly once, 30 s, for every priority.
C6_ShortExhausted_LongOpen ==
    (/\ Waited
     /\ Get(current_limits).short_usage = Get(current_limits).short_limit
     /\ Get(current_limits).long_usage < Get(current_limits).long_limit)
        => call.sleeps = <<Rat(30, 1)>>

C6_Witness ==
    /\ Waited
    /\ priority = "high"
    /\ Get(current_limits).short_usage = Get(current_limits).short_limit
    /\ Get(current_limits).long_usage < Get(current_limits).long_limit
    /\ call.sleeps = <<Rat(30, 1)>>

\* C7 as stated: every call whose response reached status classification,
\* error statuses included, has run execute, update_limits, classification
\* and exactly one wait_if_needed, in this order, when control returns.
C7_EveryCallWaitsOnce ==
    (call.pc = "done" /\ Len(call.steps) >= 3)
        => call.steps = <<"execute", "update_limits", "handle_errors", "wait_if_needed">>

\* C8: a response lacking either quota header leaves the snapshot as it was
\* and update_limits does not raise; with both headers present and parsed the
\* snapshot is the four parsed values.
C8_UpdateLimitsFrame ==
    /\ (AfterUpdate /\ HeaderMissing)
          => (current_limits = call.before /\ ~UpdateRaised)
    /\ (/\ AfterUpdate
        /\ ~HeaderMissing
        /\ WellFormed(call.response.headers[USAGE_NAME])
        /\ WellFormed(call.response.headers[LIMIT_NAME]))
          => /\ ~UpdateRaised
             /\ current_limits =
                  <<[short_usage |-> call.response.headers[USAGE_NAME][1].val,
                     long_usage |-> call.response.headers[USAGE_NAME][2].val,
                     short_limit |-> call.response.headers[LIMIT_NAME][1].val,
                     long_limit |-> call.response.headers[LIMIT_NAME][2].val]>>

C8_Witness ==
    /\ AfterUpdate
    /\ HeaderMissing
    /\ USAGE_NAME \in DOMAIN call.response.headers
    /\ IsSome(call.before)
    /\ current_limits = call.before

\* d = min(w / r, cap) as an exact rational, and 0 < d <= cap
IsPacingSleep(d, w, r, cap) ==
    /\ d.den > 0
    /\ d.num > 0
    /\ d.num <= cap * d.den
    /\ d.num * r <= w * d.den
    /\ (d.num = cap * d.den \/ d.num * r = w * d.den)

\* C9: with neither window exhausted, high never sleeps, medium sleeps
\* min(900 / (shortLimit - shortUsage), 2) s and low sleeps
\* min(86400 / (longLimit - longUsage), 5) s: positive, at most 2 s and 5 s.
C9_PriorityPacing ==
    (/\ Waited
     /\ Get(current_limits).long_usage < Get(current_limits).long_limit
     /\ Get(current_limits).short_usage < Get(current_limits).short_limit)
        => LET l == Get(current_limits) IN
           /\ priority = "high" => call.sleeps = <<>>
           /\ priority = "medium" =>
                /\ Len(call.sleeps) = 1
                /\ IsPacingSleep(call.sleeps[1], 900, l.short_limit - l.short_usage, 2)
           /\ priority = "low" =>
                /\ Len(call.sleeps) = 1
                /\ IsPacingSleep(call.sleeps[1], 86400, l.long_limit - l.long_usage, 5)

\* a medium-priority pacing sleep below its cap: 900 / 600 = 1.5 s
C9_Witness ==
    /\ Waited
    /\ priority = "medium"
    /\ Get(current_limits).long_usage < Get(current_limits).long_limit
    /\ Get(current_limits).short_limit - Get(current_limits).short_usage = 600
    /\ call.sleeps = <<Rat(900, 600)>>

\* C10: with long usage at or above the long limit wait_if_needed sleeps
\* exactly once, 60 s, for every priority, whatever the short window says.
C10_LongExhausted ==
    (Waited /\ Get(current_limits).long_usage >= Get(current_limits).long_limit)
        => call.sleeps = <<Rat(60, 1)>>

C10_Witness ==
    /\ Waited
    /\ priority = "low"
    /\ Get(current_limits).long_usage > Get(current_limits).long_limit
    /\ Get(current_limits).short_usage >= Get(current_limits).short_limit
    /\ call.sleeps = <<Rat(60, 1)>>

\* the outcome the status classification assigns to a status
Classified(status) ==
    IF status = 204 THEN "empty"
    ELSE IF is_success(status) THEN "json"
    ELSE IF status = 404 THEN "ObjectNotFound"
    ELSE IF status = 401 THEN "AccessUnauthorized"
    ELSE IF status = 429 THEN "RateLimitExceeded"
    ELSE "StravaException"

\* the status was classified: update_limits accepted the quota headers and
\* _handle_errors ran
ReachedClassification == Len(call.steps) >= 3 /\ call.steps[3] = "handle_errors"

\* C11: every call that reaches the status classification ends with exactly
\* the outcome of its status: the parsed body for 2xx (the empty result for
\* 204), ObjectNotFound for 404, AccessUnauthorized for 401, RateLimitExceeded
\* for 429, and the generic StravaException for any other status.  A 2xx
\* answer other than 204 is taken to carry a JSON document to parse.
C11_StatusClassified ==
    (/\ call.pc = "done"
     /\ ReachedClassification
     /\ (is_success(call.response.status_code) /\ call.response.status_code # 204
            => call.response.body = "json"))
    => call.outcome = Classified(call.response.status_code)

\* a 429 answer was classified and ended in RateLimitExceeded
C11_Witness ==
    /\ call.pc = "done"
    /\ call.response.status_code = 429
    /\ ReachedClassification
    /\ call.outcome = "RateLimitExceeded"

====
